---- MODULE Spec2Model ----
(***************************************************************************)
(* Model of the SQL execution core (embedded/sql, stmt.go): the write path *)
(* of INSERT / UPSERT / CREATE INDEX over an ordered key-value store, the  *)
(* deletedOrMustNotExist constraint, and the derivation of value ranges    *)
(* from a WHERE expression.                                                *)
(*                                                                         *)
(* Keys and values are byte sequences (sequences of 0..255), laid out as   *)
(* the statement compiler lays them out.                                   *)
(***************************************************************************)
EXTENDS Integers, Sequences, FiniteSets, TLC

(***************************************************************************)
(* Bounds of the model.                                                    *)
(***************************************************************************)
\* the auto-increment counter goes up to MaxPK
MaxPK == 2
\* rows of one INSERT/UPSERT statement
MaxRows == 2

(***************************************************************************)
(* The catalog the model starts from:                                      *)
(*   CREATE DATABASE db1; USE DATABASE db1;                                *)
(*   CREATE TABLE t (id INTEGER [AUTO_INCREMENT], a INTEGER NOT NULL,      *)
(*                   b INTEGER, PRIMARY KEY id);                           *)
(***************************************************************************)
\* id given to the first database: len(dbsByID)+1
DbID == 1
\* id of the first table of the database
TableID == 1
TableName == "t"
\* PKIndexID = uint32(0)
PKIndexID == 0
IdCol == 1
ACol == 2
BCol == 3
ColIDs == {IdCol, ACol, BCol}
\* table.cols, in declared order
TableCols == <<IdCol, ACol, BCol>>

\* Column.notNull
notNull(c) == c = ACol
\* Column.autoIncrement
autoIncrement(tbl, c) == tbl.autoIncrementPK /\ c = IdCol

\* ASCII
PIndexPrefix == <<80, 46>>
SIndexPrefix == <<83, 46>>
UIndexPrefix == <<85, 46>>
catalogIndexPrefix == <<67, 84, 76, 46, 73, 78, 68, 69, 88, 46>>

\* error kinds
NoErr == "nil"
ErrKeyNotFound == "KeyNotFound"
ErrKeyAlreadyExists == "KeyAlreadyExists"
ErrNoDatabaseSelected == "NoDatabaseSelected"
ErrNotNullableColumnCannotBeNull == "NotNullableColumnCannotBeNull"
ErrNoValueForAutoIncrementalColumn == "NoValueForAutoIncrementalColumn"
ErrPKCanNotBeNull == "PKCanNotBeNull"
ErrLimitedIndexCreation == "LimitedIndexCreation"
ErrIllegalArguments == "IllegalArguments"

\* store.KVConstraint of a staged entry
NoConstraint == "none"
CDeletedOrMustNotExist == "deletedOrMustNotExist"
CMustExist == "MustExist"

VARIABLES
    table,      \* the catalog's table: autoIncrementPK, maxPK, indexes
    mutated,    \* catalog.mutated
    store,      \* committed key -> value of the key-value store
    lastStmt,   \* the statement Exec was called with (kind "none": no call)
    summary,    \* the TxSummary compiled by the last Exec (nil: none)
    err,        \* the error returned by the last Exec
    compiled,   \* valuesByColID of the rows the last Exec compiled
    written,    \* pk -> valuesByColID of the last committed row write
    constraintValue,  \* the value the store found for the key a constraint checks
    constraintLookupErr,  \* the error of that lookup
    constraintErr,  \* the error the constraint returned for it
    stmtWhere,  \* the WHERE expression of a SELECT statement
    stmtRanges, \* the value ranges derived from it, by column
    ranged,     \* whether the ranges have been derived
    planTable,  \* the table a SELECT statement reads: its indexes
    selStmt,    \* the SELECT statement
    selResult,  \* what SelectStmt.compileUsing returned for it
    scanSpecs,  \* what SelectStmt.genScanSpecs returned for it
    cmpLeft,    \* the value the left operand of a comparison reduces to
    cmpRight,   \* the value the right operand reduces to
    cmpOp,      \* the operator of the comparison
    cmpResult,  \* what Compare and CmpBoolExp.reduce returned for them
    typeParams, \* params: the type recorded for each placeholder
    typeCall,   \* the last inferType or requiresType call
    typeRet,    \* the type and the error that call returned
    txDbs,      \* the names of the databases of the catalog, by id
    txImplicitDB, \* the database selected when the TxStmt is compiled
    txStmts,    \* the substatements of the TxStmt
    txTrace,    \* what each compiled substatement was given and returned
    txResult,   \* what TxStmt.compileUsing returned
    limGiven,   \* the SELECT has a LIMIT clause
    limN,       \* the N of LIMIT N
    limScan,    \* the rows the pipeline under the limit yields
    limReader,  \* the reader SelectStmt.Resolve returned
    limRead,    \* the rows read from it so far
    limErr,     \* the error of the last Read
    subParsed,  \* the expression of a statement, as parsed
    subStmt,    \* the expression the statement holds now
    subParams,  \* the parameters of the last substitute call
    subCalls,   \* the number of substitute calls so far
    subOut,     \* the error of the last call, or the value of what it returned
    ctStmt,     \* a CREATE TABLE statement
    ctExists,   \* the database has a table of its name
    ctResult,   \* what CreateTableStmt.compileUsing returned
    ccStmt,     \* the statement each caller's Exec is executing (kind "none": none)
    ccNext,     \* the row of it that is compiled next
    ccAcc,      \* the state of its compilation
    ccErr,      \* what its commit returned
    ccGiven,    \* the auto-increment PKs given to rows so far, in order
    rsStmt,     \* a SELECT statement: its clauses
    rsResult,   \* what SelectStmt.compileUsing returned for it
    rsReader    \* the readers of the pipeline SelectStmt.Resolve returned

engineVars == <<table, mutated, store, lastStmt, summary, err, compiled, written>>
constraintVars == <<constraintValue, constraintLookupErr, constraintErr>>
rangeVars == <<stmtWhere, stmtRanges, ranged>>
planVars == <<planTable, selStmt, selResult, scanSpecs>>
\* the variables of the parts that follow the write path, the constraint and
\* the ranges
cmpVars == <<cmpLeft, cmpRight, cmpOp, cmpResult>>
typeVars == <<typeParams, typeCall, typeRet>>
txVars == <<txDbs, txImplicitDB, txStmts, txTrace, txResult>>
limVars == <<limGiven, limN, limScan, limReader, limRead, limErr>>
substVars == <<subParsed, subStmt, subParams, subCalls, subOut>>
\* the parts that follow the limit reader
ctVars == <<ctStmt, ctExists, ctResult>>
concVars == <<ccStmt, ccNext, ccAcc, ccErr, ccGiven>>
resolveVars == <<rsStmt, rsResult, rsReader>>
restVars == <<substVars, ctVars, concVars, resolveVars>>
laterVars == <<planVars, cmpVars, typeVars, txVars, limVars, restVars>>
\* all the variables but those of one part
notPlanVars == <<engineVars, constraintVars, rangeVars, cmpVars, typeVars, txVars, limVars,
                 restVars>>
notCmpVars == <<engineVars, constraintVars, rangeVars, planVars, typeVars, txVars, limVars,
                restVars>>
notTypeVars == <<engineVars, constraintVars, rangeVars, planVars, cmpVars, txVars,
                 limVars, restVars>>
\* all the variables but those of the TxStmt and the table
notTxVars == <<mutated, store, lastStmt, summary, err, compiled, written,
               constraintVars, rangeVars, planVars, cmpVars, typeVars, limVars,
               restVars>>
notLimVars == <<engineVars, constraintVars, rangeVars, planVars, cmpVars, typeVars,
                txVars, restVars>>
\* the parts before those that follow the limit reader
firstVars == <<engineVars, constraintVars, rangeVars, planVars, cmpVars, typeVars,
               txVars, limVars>>
notSubstVars == <<firstVars, ctVars, concVars, resolveVars>>
notCtVars == <<firstVars, substVars, concVars, resolveVars>>
notResolveVars == <<firstVars, substVars, ctVars, concVars>>
\* all the variables but those of the callers and the table, the catalog
\* and the store
notConcVars == <<lastStmt, summary, err, compiled, written, constraintVars, rangeVars,
                 planVars, cmpVars, typeVars, txVars, limVars, substVars, ctVars,
                 resolveVars>>
vars == <<engineVars, constraintVars, rangeVars, laterVars>>

(***************************************************************************)
(* Byte-level encodings                                                    *)
(***************************************************************************)
\* binary.BigEndian.PutUint32
U32(n) == <<(n \div 16777216) % 256, (n \div 65536) % 256,
            (n \div 256) % 256, n % 256>>

\* binary.BigEndian.Uint32
DecodeU32(bs) == bs[1] * 16777216 + bs[2] * 65536 + bs[3] * 256 + bs[4]

\* the low four bytes of the two's complement of a negative v
NegLow32(v) == [i \in 1..4 |-> 255 - U32(-v - 1)[i]]

\* the 8 bytes of a 64 bit two's complement integer, big-endian
I64(v) == IF v >= 0 THEN <<0, 0, 0, 0>> \o U32(v)
          ELSE <<255, 255, 255, 255>> \o NegLow32(v)

DecodeI64(bs) ==
    IF bs[1] < 128 THEN DecodeU32(SubSeq(bs, 5, 8))
    ELSE -(DecodeU32([i \in 1..4 |-> 255 - bs[4 + i]])) - 1

\* EncodeID: 4 bytes big-endian
EncodeID(id) == U32(id)

\* EncodeAsKey for INTEGER: 8 bytes big-endian with the sign bit flipped
EncodeAsKey(v) ==
    LET raw == I64(v)
    IN  [i \in 1..8 |-> IF i = 1 THEN (raw[1] + 128) % 256 ELSE raw[i]]

\* EncodeValue for INTEGER: 4-byte length prefix (8), then the raw bytes
EncodeValue(v) == U32(8) \o I64(v)

RECURSIVE Concat(_)
Concat(parts) ==
    IF parts = << >> THEN << >> ELSE Head(parts) \o Concat(Tail(parts))

\* Engine.mapKey: the prefix followed by the encoded parts
mapKey(prefix, parts) == prefix \o Concat(parts)

EmptyMap == [c \in {} |-> 0]

IsPrefix(p, k) == Len(p) <= Len(k) /\ SubSeq(k, 1, Len(p)) = p

(***************************************************************************)
(* The key-value store: constraints and Commit                             *)
(***************************************************************************)
\* variant: a constraint that takes a tombstoned key for a live one
deletedOrMustNotExist_NoTombstone(currValue, lookupErr) ==
    IF lookupErr = ErrKeyNotFound THEN NoErr
    ELSE IF lookupErr # NoErr THEN lookupErr
    ELSE ErrKeyAlreadyExists

\* var deletedOrMustNotExist store.KVConstraint
deletedOrMustNotExist(currValue, lookupErr) ==
    IF lookupErr = ErrKeyNotFound THEN NoErr
    ELSE IF lookupErr # NoErr THEN lookupErr
    ELSE IF Len(currValue) > 0 /\ currValue[1] = 1 THEN NoErr
    ELSE ErrKeyAlreadyExists

\* store.MustExist: the key must be present
MustExist(currValue, lookupErr) ==
    IF lookupErr # NoErr THEN lookupErr ELSE NoErr

\* the outcome of the constraint of one entry of a batch against st
ConstraintErr(kv, st) ==
    LET present == kv.Key \in DOMAIN st
        lookupErr == IF present THEN NoErr ELSE ErrKeyNotFound
        curr == IF present THEN st[kv.Key] ELSE << >>
    IN  CASE kv.Constraint = CDeletedOrMustNotExist ->
                 deletedOrMustNotExist(curr, lookupErr)
          [] kv.Constraint = CMustExist -> MustExist(curr, lookupErr)
          [] OTHER -> NoErr

\* Commit(batch): the errors it can return, the one of any entry whose
\* constraint fails (which entry is checked first is the store's choice)
CommitErrs(batch, st) ==
    LET errs == {ConstraintErr(batch[i], st) : i \in 1..Len(batch)} \ {NoErr}
    IN  IF errs = {} THEN {NoErr} ELSE errs

\* Commit(batch): all entries become visible at once, in batch order
CommitBatch(batch, st) ==
    LET keys == {batch[i].Key : i \in 1..Len(batch)}
        lastOf(k) == CHOOSE i \in 1..Len(batch) :
                        /\ batch[i].Key = k
                        /\ \A j \in 1..Len(batch) : batch[j].Key = k => j <= i
    IN  [k \in DOMAIN st \cup keys |->
            IF k \in keys THEN batch[lastOf(k)].Value ELSE st[k]]

\* ExistKeyWith(prefix, neq, includeDeleted)
ExistKeyWith(st, prefix) == \E k \in DOMAIN st : IsPrefix(prefix, k)

(***************************************************************************)
(* Rows in the store                                                       *)
(***************************************************************************)
\* the row payload: field count, then (colID, EncodeValue) per non-null
\* column in declared order
RECURSIVE EncodeCols(_, _)
EncodeCols(valuesByColID, cols) ==
    IF cols = << >> THEN << >>
    ELSE LET c == Head(cols)
         IN  (IF c \in DOMAIN valuesByColID
              THEN U32(c) \o EncodeValue(valuesByColID[c])
              ELSE << >>) \o EncodeCols(valuesByColID, Tail(cols))

\* variant: a payload that leaves out the last column
RowPayload_WithoutLastColumn(valuesByColID) ==
    LET vals == [c \in DOMAIN valuesByColID \ {BCol} |-> valuesByColID[c]]
    IN  U32(Cardinality(DOMAIN vals)) \o EncodeCols(vals, TableCols)

RowPayload(valuesByColID) ==
    U32(Cardinality(DOMAIN valuesByColID)) \o EncodeCols(valuesByColID, TableCols)

\* the raw reader's parsing of a payload: n (colID, len, value) fields
RECURSIVE DecodeCols(_, _)
DecodeCols(bs, n) ==
    IF n = 0 THEN EmptyMap
    ELSE LET colID == DecodeU32(SubSeq(bs, 1, 4))
             len   == DecodeU32(SubSeq(bs, 5, 8))
             v     == DecodeI64(SubSeq(bs, 9, 8 + len))
             rest  == DecodeCols(SubSeq(bs, 9 + len, Len(bs)), n - 1)
         IN  [c \in {colID} \cup DOMAIN rest |->
                 IF c = colID THEN v ELSE rest[c]]

\* value of a primary entry -> valuesByColID
DecodeRow(value) ==
    DecodeCols(SubSeq(value, 6, Len(value)), DecodeU32(SubSeq(value, 2, 5)))

PKPrefix == mapKey(PIndexPrefix, <<EncodeID(DbID), EncodeID(TableID), EncodeID(PKIndexID)>>)

PKKey(pkEncVals) == PKPrefix \o pkEncVals

\* the live rows a scan of the primary index returns
PrimaryScan(st) ==
    {DecodeRow(st[k]) : k \in {x \in DOMAIN st : IsPrefix(PKPrefix, x) /\ st[x][1] = 0}}

\* Engine.fetchPKRow: the committed live row with this primary key
fetchPKRow(st, valuesByColID) ==
    LET key == PKKey(EncodeAsKey(valuesByColID[IdCol]))
    IN  IF key \in DOMAIN st /\ st[key][1] = 0
        THEN [found |-> TRUE, values |-> DecodeRow(st[key])]
        ELSE [found |-> FALSE, values |-> EmptyMap]

(***************************************************************************)
(* UpsertIntoStmt.compileUsing                                             *)
(***************************************************************************)
\* Number.Compare
Compare(x, y) == IF x = y THEN 0 ELSE IF x > y THEN 1 ELSE -1

\* the key of the entry of a secondary index: U.{db}{table}{index}{cols} for
\* a unique index, S.{db}{table}{index}{cols}{pk} otherwise
IndexKey(index, valuesByColID, pkEncVals) ==
    LET encVals == [i \in 1..Len(index.cols) |->
                       EncodeAsKey(valuesByColID[index.cols[i]])]
        ids == <<EncodeID(DbID), EncodeID(TableID), EncodeID(index.id)>>
    IN  IF index.unique
        THEN mapKey(UIndexPrefix, ids \o encVals)
        ELSE mapKey(SIndexPrefix, ids \o encVals \o <<pkEncVals>>)

\* the value of the entry of a secondary index: the deletion flag, and the
\* primary key for a unique index
IndexValue(index, deleted, pkEncVals) ==
    IF index.unique THEN <<deleted>> \o pkEncVals ELSE <<deleted>>

\* Engine.deleteIndexEntriesFor, from the i-th index of the table on: the
\* indexes whose entry stays and the tombstones of the others
RECURSIVE deleteIndexEntriesFrom(_, _, _, _, _)
deleteIndexEntriesFrom(i, pkEncVals, currValuesByColID, newValuesByColID, tbl) ==
    IF i > Len(tbl.indexes) THEN [reusable |-> {}, des |-> << >>]
    ELSE LET index == tbl.indexes[i]
             rest  == deleteIndexEntriesFrom(i + 1, pkEncVals, currValuesByColID,
                                             newValuesByColID, tbl)
             sameIndexKey ==
                 \A j \in 1..Len(index.cols) :
                     Compare(currValuesByColID[index.cols[j]],
                             newValuesByColID[index.cols[j]]) = 0
             ie == [Key |-> IndexKey(index, currValuesByColID, pkEncVals),
                    Value |-> IndexValue(index, 1, pkEncVals),
                    Constraint |-> NoConstraint]
         IN  IF index.id = PKIndexID THEN rest
             ELSE IF sameIndexKey
             THEN [reusable |-> {index.id} \cup rest.reusable, des |-> rest.des]
             ELSE [reusable |-> rest.reusable, des |-> <<ie>> \o rest.des]

\* variant: the previous index entries are left in place
deleteIndexEntriesFor_Nothing(pkEncVals, currValuesByColID, newValuesByColID, tbl) ==
    [reusable |-> {}, des |-> << >>]

deleteIndexEntriesFor(pkEncVals, currValuesByColID, newValuesByColID, tbl) ==
    deleteIndexEntriesFrom(1, pkEncVals, currValuesByColID, newValuesByColID, tbl)

\* variant: UPSERT never requires the row to exist
PrimaryConstraint_NoMustExist(isInsert, autoIncrementPK) ==
    IF isInsert /\ ~autoIncrementPK THEN CDeletedOrMustNotExist ELSE NoConstraint

\* the constraint of the primary entry
PrimaryConstraint(isInsert, autoIncrementPK) ==
    IF ~isInsert /\ autoIncrementPK THEN CMustExist
    ELSE IF isInsert /\ ~autoIncrementPK THEN CDeletedOrMustNotExist
    ELSE NoConstraint

\* variant: the entries of a unique index carry no constraint
IndexConstraint_None(index) == NoConstraint

\* the constraint of the entry of a secondary index
IndexConstraint(index) ==
    IF index.unique THEN CDeletedOrMustNotExist ELSE NoConstraint

\* the entries of the secondary indexes of a row, from the i-th index on
RECURSIVE IndexEntriesFrom(_, _, _, _, _)
IndexEntriesFrom(i, pkEncVals, valuesByColID, reusableIndexEntries, tbl) ==
    IF i > Len(tbl.indexes) THEN << >>
    ELSE LET index == tbl.indexes[i]
             rest  == IndexEntriesFrom(i + 1, pkEncVals, valuesByColID,
                                       reusableIndexEntries, tbl)
             ie == [Key |-> IndexKey(index, valuesByColID, pkEncVals),
                    Value |-> IndexValue(index, 0, pkEncVals),
                    Constraint |-> IndexConstraint(index)]
         IN  IF index.id = PKIndexID \/ index.id \in reusableIndexEntries
             THEN rest
             ELSE <<ie>> \o rest

\* variant: a NULL given to a NOT NULL column is let through
ColErr_NullLetThrough(tbl, stmt, row, c) ==
    IF c \notin stmt.cols
    THEN (IF notNull(c) THEN ErrNotNullableColumnCannotBeNull ELSE NoErr)
    ELSE IF stmt.isInsert /\ autoIncrement(tbl, c)
    THEN ErrNoValueForAutoIncrementalColumn
    ELSE NoErr

\* what the loop over table.colsByID returns for column c of a row
ColErr(tbl, stmt, row, c) ==
    IF c \notin stmt.cols
    THEN (IF notNull(c) THEN ErrNotNullableColumnCannotBeNull ELSE NoErr)
    ELSE IF stmt.isInsert /\ autoIncrement(tbl, c)
    THEN ErrNoValueForAutoIncrementalColumn
    ELSE IF c \notin DOMAIN row /\ notNull(c)
    THEN ErrNotNullableColumnCannotBeNull
    ELSE NoErr

\* the loop visits the columns in the order of a map iteration: it can
\* return the error of any column that has one
RowColErrs(tbl, stmt, row) == {ColErr(tbl, stmt, row, c) : c \in ColIDs} \ {NoErr}

\* variant: the primary entry is staged without constraint
RowEntries_NoPrimaryConstraint(tbl, st, stmt, valuesByColID, pkEncVals, deleted) ==
    deleted.des
    \o <<[Key |-> PKKey(pkEncVals),
          Value |-> <<0>> \o RowPayload(valuesByColID),
          Constraint |-> NoConstraint]>>
    \o IndexEntriesFrom(1, pkEncVals, valuesByColID, deleted.reusable, tbl)

\* the entries of one row with a primary key: tombstones of the previous
\* index entries (UPSERT of an existing row), the primary entry, the entries
\* of the secondary indexes
RowEntries(tbl, st, stmt, valuesByColID, pkEncVals, deleted) ==
    deleted.des
    \o <<[Key |-> PKKey(pkEncVals),
          Value |-> <<0>> \o RowPayload(valuesByColID),
          Constraint |-> PrimaryConstraint(stmt.isInsert, tbl.autoIncrementPK)]>>
    \o IndexEntriesFrom(1, pkEncVals, valuesByColID, deleted.reusable, tbl)

\* variant: the counter is not advanced
IncrementMaxPK_Stale(maxPK) == maxPK

\* table.maxPK++
IncrementMaxPK(maxPK) == maxPK + 1

\* variant: the previous index entries are deleted by INSERT as well
DeletedEntries_AlsoOnInsert(tbl, st, stmt, valuesByColID, pkEncVals, currPKRow) ==
    IF Len(tbl.indexes) > 1 /\ currPKRow.found
    THEN deleteIndexEntriesFor(pkEncVals, currPKRow.values, valuesByColID, tbl)
    ELSE [reusable |-> {}, des |-> << >>]

\* the previous index entries of the row, when it is looked up
DeletedEntries(tbl, st, stmt, valuesByColID, pkEncVals, currPKRow) ==
    IF ~stmt.isInsert /\ Len(tbl.indexes) > 1 /\ currPKRow.found
    THEN deleteIndexEntriesFor(pkEncVals, currPKRow.values, valuesByColID, tbl)
    ELSE [reusable |-> {}, des |-> << >>]

\* one iteration of the loop over stmt.rows; acc is the state of the
\* compilation so far
CompileRow(tbl, st, stmt, row, acc) ==
    LET inject == stmt.isInsert /\ tbl.autoIncrementPK
        maxPK  == IF inject THEN IncrementMaxPK(acc.maxPK) ELSE acc.maxPK
        valuesByColID ==
            IF inject
            THEN [c \in DOMAIN row \cup {IdCol} |->
                     IF c = IdCol THEN maxPK ELSE row[c]]
            ELSE row
    IN  IF RowColErrs(tbl, stmt, row) # {}
        THEN [acc EXCEPT !.errs = RowColErrs(tbl, stmt, row)]
        ELSE IF IdCol \notin DOMAIN valuesByColID
        THEN [acc EXCEPT !.errs = {ErrPKCanNotBeNull},
                         !.maxPK = maxPK,
                         !.mutated = acc.mutated \/ inject]
        ELSE LET pkEncVals == EncodeAsKey(valuesByColID[IdCol])
                 deleted == DeletedEntries(tbl, st, stmt, valuesByColID, pkEncVals,
                                           fetchPKRow(st, valuesByColID))
             IN  [errs |-> {},
                  maxPK |-> maxPK,
                  mutated |-> acc.mutated \/ inject,
                  des |-> acc.des \o RowEntries(tbl, st, stmt, valuesByColID,
                                                pkEncVals, deleted),
                  updatedRows |-> acc.updatedRows + 1,
                  lastInsertedPKs |-> IF inject THEN <<maxPK>> ELSE acc.lastInsertedPKs,
                  rows |-> Append(acc.rows, valuesByColID)]

RECURSIVE CompileRows(_, _, _, _, _)
CompileRows(tbl, st, stmt, i, acc) ==
    IF i > Len(stmt.rows) \/ acc.errs # {} THEN acc
    ELSE CompileRows(tbl, st, stmt, i + 1,
                     CompileRow(tbl, st, stmt, stmt.rows[i], acc))

\* variant: a compilation that fails gives back the PKs it has taken
UpsertCompileUsing_RollBack(tbl, st, stmt) ==
    LET acc0 == [errs |-> {}, maxPK |-> tbl.maxPK, mutated |-> FALSE,
                 des |-> << >>, updatedRows |-> 0,
                 lastInsertedPKs |-> << >>, rows |-> << >>]
        out == CompileRows(tbl, st, stmt, 1, acc0)
    IN  IF ~stmt.implicitDB
        THEN [acc0 EXCEPT !.errs = {ErrNoDatabaseSelected}]
        ELSE IF out.errs # {}
        THEN [out EXCEPT !.maxPK = tbl.maxPK, !.mutated = FALSE]
        ELSE out

\* UpsertIntoStmt.compileUsing: errs is empty and the summary is made of
\* des, updatedRows and lastInsertedPKs (the last PK given in the table, if
\* any), or errs holds the errors the compilation can fail with
UpsertCompileUsing(tbl, st, stmt) ==
    LET acc0 == [errs |-> {}, maxPK |-> tbl.maxPK, mutated |-> FALSE,
                 des |-> << >>, updatedRows |-> 0,
                 lastInsertedPKs |-> << >>, rows |-> << >>]
    IN  IF ~stmt.implicitDB
        THEN [acc0 EXCEPT !.errs = {ErrNoDatabaseSelected}]
        ELSE CompileRows(tbl, st, stmt, 1, acc0)

(***************************************************************************)
(* CreateIndexStmt.compileUsing                                            *)
(***************************************************************************)
\* Table.newIndex: ids are dense, the primary index has id 0
newIndex(tbl, unique, colIDs) ==
    [id |-> Len(tbl.indexes), unique |-> unique, cols |-> colIDs]

\* the value of the catalog entry of an index: the unique flag, then the
\* column id and one (zero) byte of order per column
RECURSIVE EncodeIndexCols(_)
EncodeIndexCols(cols) ==
    IF cols = << >> THEN << >>
    ELSE EncodeID(Head(cols)) \o <<0>> \o EncodeIndexCols(Tail(cols))

\* variant: the index is created whether the table has rows or not
CreateIndexCompileUsing_AnyTable(tbl, st, stmt) ==
    LET index == newIndex(tbl, stmt.unique, stmt.cols)
        te == [Key |-> mapKey(catalogIndexPrefix,
                              <<EncodeID(DbID), EncodeID(TableID), EncodeID(index.id)>>),
               Value |-> <<IF index.unique THEN 1 ELSE 0>> \o EncodeIndexCols(index.cols),
               Constraint |-> NoConstraint]
        fail(e) == [err |-> e, table |-> tbl, ces |-> << >>]
    IN  IF Len(stmt.cols) < 1 THEN fail(ErrIllegalArguments)
        ELSE IF ~stmt.implicitDB THEN fail(ErrNoDatabaseSelected)
        ELSE [err |-> NoErr,
              table |-> [tbl EXCEPT !.indexes = Append(tbl.indexes, index)],
              ces |-> <<te>>]

\* CreateIndexStmt.compileUsing: err, the table after it, and the ces
CreateIndexCompileUsing(tbl, st, stmt) ==
    LET index == newIndex(tbl, stmt.unique, stmt.cols)
        te == [Key |-> mapKey(catalogIndexPrefix,
                              <<EncodeID(DbID), EncodeID(TableID), EncodeID(index.id)>>),
               Value |-> <<IF index.unique THEN 1 ELSE 0>> \o EncodeIndexCols(index.cols),
               Constraint |-> NoConstraint]
        fail(e) == [err |-> e, table |-> tbl, ces |-> << >>]
    IN  IF Len(stmt.cols) < 1 THEN fail(ErrIllegalArguments)
        ELSE IF ~stmt.implicitDB THEN fail(ErrNoDatabaseSelected)
        ELSE IF ExistKeyWith(st, PKPrefix) THEN fail(ErrLimitedIndexCreation)
        ELSE [err |-> NoErr,
              table |-> [tbl EXCEPT !.indexes = Append(tbl.indexes, index)],
              ces |-> <<te>>]

(***************************************************************************)
(* The statements the model executes                                       *)
(***************************************************************************)
\* the primary keys statements give, and the values they give to column a:
\* two of each, which the compiler and the store only encode and compare
StmtPKs == {1, 2}
AVals == {1, 2}

\* the values a statement gives to a column
ColVals(c) == IF c = IdCol THEN StmtPKs ELSE IF c = ACol THEN AVals ELSE {1}

\* the rows of a statement that names the columns cols: a row maps the
\* columns it gives a non-NULL value to; the other named columns are NULL.
\* The NULL literal is given to the NOT NULL column only
RowsOf(cols) ==
    UNION {{r \in [S -> StmtPKs \cup AVals] : \A c \in S : r[c] \in ColVals(c)}
           : S \in {cols, cols \ {ACol}}}

\* the rows that give the NULL literal to the primary key
NullPKRowsOf(cols) ==
    {r \in [cols \ {IdCol} -> StmtPKs \cup AVals] : \A c \in cols \ {IdCol} : r[c] \in ColVals(c)}

NilSummary ==
    [isNil |-> TRUE, ces |-> << >>, des |-> << >>, updatedRows |-> 0,
     lastInsertedPKs |-> << >>]

DistinctKeys(batch) ==
    \A i, j \in 1..Len(batch) : batch[i].Key = batch[j].Key => i = j

\* the rows of a committed statement become the last written ones
RECURSIVE WriteRows(_, _)
WriteRows(w, rows) ==
    IF rows = << >> THEN w
    ELSE LET r == Head(rows)
         IN  WriteRows([pk \in DOMAIN w \cup {r[IdCol]} |->
                           IF pk = r[IdCol] THEN r ELSE w[pk]], Tail(rows))

(***************************************************************************)
(* Exec of one statement: compile, then commit ces and des atomically      *)
(***************************************************************************)
NoStmt == [kind |-> "none"]

NoExp == [exp |-> "none"]
Pending == "pending"

\* no constraint is being checked
ConstraintIdle ==
    constraintValue = << >> /\ constraintLookupErr = NoErr /\ constraintErr = Pending

\* no SELECT is being planned
RangeIdle ==
    stmtWhere = NoExp /\ stmtRanges = EmptyMap /\ ranged = FALSE

\* no SELECT is being compiled or planned
NoResult == [err |-> Pending]
PlanIdle ==
    planTable = NoStmt /\ selStmt = NoStmt /\ selResult = NoResult /\ scanSpecs = NoResult

\* no comparison is being evaluated
CmpIdle ==
    cmpLeft = NoStmt /\ cmpRight = NoStmt /\ cmpOp = Pending /\ cmpResult = NoResult

\* no type is being inferred
TypeIdle == typeParams = NoStmt /\ typeCall = NoStmt /\ typeRet = NoResult

\* no TxStmt is being compiled
TxIdle ==
    /\ txDbs = << >> /\ txImplicitDB = 0 /\ txStmts = << >> /\ txTrace = << >>
    /\ txResult = NoResult

\* no SELECT is being resolved
LimIdle ==
    /\ limGiven = FALSE /\ limN = 0 /\ limScan = 0 /\ limReader = NoStmt
    /\ limRead = 0 /\ limErr = NoErr

\* no expression is being substituted
SubstIdle ==
    /\ subParsed = NoExp /\ subStmt = NoExp /\ subParams = << >> /\ subCalls = 0
    /\ subOut = NoResult

\* no CREATE TABLE is being compiled
CtIdle == ctStmt = NoStmt /\ ctExists = FALSE /\ ctResult = NoResult

Callers == {"c1", "c2"}

\* no caller is executing a statement
ConcIdle ==
    /\ ccStmt = [c \in Callers |-> NoStmt]
    /\ ccNext = [c \in Callers |-> 0]
    /\ ccAcc = [c \in Callers |-> NoResult]
    /\ ccErr = [c \in Callers |-> Pending]
    /\ ccGiven = << >>

\* no SELECT is being resolved
ResolveIdle == rsStmt = NoStmt /\ rsResult = NoResult /\ rsReader = NoResult

\* the parts that follow are idle, but the one named
IdleBut(part) ==
    /\ IF part = "plan" THEN TRUE ELSE PlanIdle
    /\ IF part = "cmp" THEN TRUE ELSE CmpIdle
    /\ IF part = "type" THEN TRUE ELSE TypeIdle
    /\ IF part = "tx" THEN TRUE ELSE TxIdle
    /\ IF part = "limit" THEN TRUE ELSE LimIdle
    /\ IF part = "subst" THEN TRUE ELSE SubstIdle
    /\ IF part = "ct" THEN TRUE ELSE CtIdle
    /\ IF part = "conc" THEN TRUE ELSE ConcIdle
    /\ IF part = "resolve" THEN TRUE ELSE ResolveIdle

EngineInit ==
    /\ table \in {[autoIncrementPK |-> ai, maxPK |-> 0,
                   indexes |-> <<[id |-> PKIndexID, unique |-> TRUE, cols |-> <<IdCol>>]>>]
                  : ai \in BOOLEAN}
    /\ mutated = FALSE
    /\ store = EmptyMap
    /\ lastStmt = NoStmt
    /\ summary = NilSummary
    /\ err = NoErr
    /\ compiled = << >>
    /\ written = EmptyMap

Init == EngineInit /\ ConstraintIdle /\ RangeIdle /\ IdleBut("none")

UpsertIntoStmt(isInsert, implicitDB, cols, rows) ==
    [kind |-> "UpsertIntoStmt", isInsert |-> isInsert, implicitDB |-> implicitDB,
     cols |-> cols, rows |-> rows]

CreateIndexStmt(unique, implicitDB, cols) ==
    [kind |-> "CreateIndexStmt", unique |-> unique, implicitDB |-> implicitDB,
     cols |-> cols]

\* Exec of an INSERT / UPSERT statement
ExecUpsertStmt(isInsert, implicitDB, cols, rows) ==
    /\ lastStmt = NoStmt
    /\ UNCHANGED <<constraintVars, rangeVars, laterVars>>
    /\ isInsert /\ table.autoIncrementPK
          => table.maxPK + Len(rows) <= MaxPK
    /\ \E s \in {UpsertIntoStmt(isInsert, implicitDB, cols, rows)} :
       \E out \in {UpsertCompileUsing(table, store, s)} :
        /\ out.errs = {} => DistinctKeys(out.des)
        /\ lastStmt' = s
        /\ table' = [table EXCEPT !.maxPK = out.maxPK]
        /\ mutated' = (mutated \/ out.mutated)
        /\ compiled' = out.rows
        /\ IF out.errs # {}
           THEN /\ \E e \in out.errs : err' = e
                /\ summary' = NilSummary
                /\ UNCHANGED <<store, written>>
           ELSE \E cerr \in CommitErrs(out.des, store) :
                /\ summary' = [isNil |-> FALSE, ces |-> << >>, des |-> out.des,
                               updatedRows |-> out.updatedRows,
                               lastInsertedPKs |-> out.lastInsertedPKs]
                /\ err' = cerr
                /\ IF cerr = NoErr
                   THEN /\ store' = CommitBatch(out.des, store)
                        /\ written' = WriteRows(written, out.rows)
                   ELSE UNCHANGED <<store, written>>

ExecUpsert ==
    /\ lastStmt = NoStmt
    /\ \E isInsert \in BOOLEAN, cols \in SUBSET ColIDs, n \in 1..MaxRows :
        \E rows \in [1..n -> RowsOf(cols)] :
            /\ \A i, j \in 1..n :
                  (i # j /\ IdCol \in DOMAIN rows[i] /\ IdCol \in DOMAIN rows[j])
                      => rows[i][IdCol] # rows[j][IdCol]
            /\ ExecUpsertStmt(isInsert, TRUE, cols, rows)

ExecUpsertNoDatabase ==
    /\ lastStmt = NoStmt
    /\ \E isInsert \in BOOLEAN :
        ExecUpsertStmt(isInsert, FALSE, ColIDs, <<[c \in ColIDs |-> 1]>>)

\* Exec of a statement whose last row gives NULL to the primary key, after
\* no row or one row that gives it a value
ExecUpsertNullPK ==
    /\ lastStmt = NoStmt
    /\ \E isInsert \in BOOLEAN, cols \in SUBSET ColIDs :
        \E before \in {<< >>} \cup {<<r>> : r \in RowsOf(cols)}, last \in NullPKRowsOf(cols) :
            /\ IdCol \in cols
            /\ ExecUpsertStmt(isInsert, TRUE, cols, Append(before, last))

\* Exec of a CREATE INDEX statement
ExecCreateIndexStmt(unique, implicitDB, cols) ==
    /\ lastStmt = NoStmt
    /\ UNCHANGED <<constraintVars, rangeVars, laterVars>>
    /\ \A i \in 1..Len(table.indexes) : table.indexes[i].cols # cols
    /\ \E s \in {CreateIndexStmt(unique, implicitDB, cols)} :
       \E out \in {CreateIndexCompileUsing(table, store, s)} :
        /\ lastStmt' = s
        /\ table' = out.table
        /\ mutated' = (mutated \/ out.err = NoErr)
        /\ compiled' = << >>
        /\ err' = out.err
        /\ summary' = IF out.err = NoErr
                      THEN [NilSummary EXCEPT !.isNil = FALSE, !.ces = out.ces]
                      ELSE NilSummary
        /\ store' = IF out.err = NoErr THEN CommitBatch(out.ces, store) ELSE store
        /\ UNCHANGED written

ExecCreateIndex ==
    /\ lastStmt = NoStmt
    /\ \E unique \in BOOLEAN, implicitDB \in BOOLEAN, cols \in {<< >>, <<ACol>>} :
        ExecCreateIndexStmt(unique, implicitDB, cols)

\* the caller takes the result of Exec; it can then execute a statement
Return ==
    /\ lastStmt # NoStmt
    /\ lastStmt' = NoStmt
    /\ summary' = NilSummary
    /\ err' = NoErr
    /\ compiled' = << >>
    /\ UNCHANGED <<table, mutated, store, written>>
    /\ UNCHANGED <<constraintVars, rangeVars, laterVars>>

Next ==
    \/ ExecUpsert \/ ExecUpsertNoDatabase \/ ExecUpsertNullPK
    \/ ExecCreateIndex \/ Return

Spec == Init /\ [][Next]_vars

(***************************************************************************)
(* The deletedOrMustNotExist constraint on every outcome of the lookup     *)
(***************************************************************************)
\* bytes of the values the lookup finds are 0..MaxByte
MaxByte == 2
\* the values the lookup finds have up to MaxValueLen bytes
MaxValueLen == 3

\* lookup errors other than ErrKeyNotFound
ErrAlreadyClosed == "ErrAlreadyClosed"
ErrCorruptedData == "ErrCorruptedData"

CurrValues == UNION {[1..n -> 0..MaxByte] : n \in 0..MaxValueLen}

ConstraintInit ==
    /\ EngineInit
    /\ RangeIdle
    /\ IdleBut("none")
    /\ constraintValue \in CurrValues
    /\ constraintLookupErr \in {NoErr, ErrKeyNotFound, ErrAlreadyClosed, ErrCorruptedData}
    /\ constraintErr = Pending

\* the store calls the constraint with the outcome of its lookup
CheckConstraint ==
    /\ constraintErr = Pending
    /\ constraintErr' = deletedOrMustNotExist(constraintValue, constraintLookupErr)
    /\ UNCHANGED <<constraintValue, constraintLookupErr, engineVars, rangeVars, laterVars>>

ConstraintNext == CheckConstraint

ConstraintSpec == ConstraintInit /\ [][ConstraintNext]_vars

(***************************************************************************)
(* Value ranges of a WHERE expression (selectorRanges)                     *)
(***************************************************************************)
\* constants of the comparisons are 1..MaxConst
MaxConst == 3

\* CmpOperator
EQ == "="
NE == "!="
LT == "<"
LE == "<="
GT == ">"
GE == ">="
CmpOperators == {EQ, NE, LT, LE, GT, GE}

\* LogicOperator
AND == "AND"
OR == "OR"

\* operands of a comparison: a column selector of the table, or a constant
ColSelector(c) == <<"ColSelector", c>>
Number(v) == <<"Number", v>>
IsColSelector(e) == e[1] = "ColSelector"
isConstant(e) == e[1] = "Number"

CmpBoolExp(op, left, right) ==
    [exp |-> "CmpBoolExp", op |-> op, left |-> left, right |-> right]
BinBoolExp(op, left, right) ==
    [exp |-> "BinBoolExp", op |-> op, left |-> left, right |-> right]

cmpSatisfiesOp(cmp, op) ==
    CASE cmp = 0 -> op \in {EQ, LE, GE}
      [] cmp = -1 -> op \in {NE, LT, LE}
      [] cmp = 1 -> op \in {NE, GT, GE}
      [] OTHER -> FALSE

\* ValueExp.reduce of an operand on a row
ReduceOperand(e, row) == IF IsColSelector(e) THEN row[e[2]] ELSE e[2]

\* CmpBoolExp.reduce / BinBoolExp.reduce: the value of the expression on a row
RECURSIVE reduce(_, _)
reduce(bexp, row) ==
    IF bexp.exp = "CmpBoolExp"
    THEN cmpSatisfiesOp(Compare(ReduceOperand(bexp.left, row),
                                ReduceOperand(bexp.right, row)), bexp.op)
    ELSE IF bexp.op = AND
         THEN reduce(bexp.left, row) /\ reduce(bexp.right, row)
         ELSE reduce(bexp.left, row) \/ reduce(bexp.right, row)

\* a nil *typedValueSemiRange, and one with a value
NilSemiRange == [isNil |-> TRUE, val |-> 0, inclusive |-> FALSE]
SemiRange(val, inclusive) == [isNil |-> FALSE, val |-> val, inclusive |-> inclusive]

maxSemiRange(or1, or2) ==
    LET r == Compare(or1.val, or2.val)
        maxVal == IF r < 0 THEN or2.val ELSE or1.val
    IN  SemiRange(maxVal, or1.inclusive /\ or2.inclusive)

minSemiRange(or1, or2) ==
    LET r == Compare(or1.val, or2.val)
        minVal == IF r > 0 THEN or2.val ELSE or1.val
    IN  SemiRange(minVal, or1.inclusive \/ or2.inclusive)

\* typedValueRange.refineWith: the range r becomes
refineWith(r, refiningRange) ==
    [lRange |-> IF r.lRange.isNil THEN refiningRange.lRange
                ELSE IF ~refiningRange.lRange.isNil
                     THEN maxSemiRange(r.lRange, refiningRange.lRange)
                     ELSE r.lRange,
     hRange |-> IF r.hRange.isNil THEN refiningRange.hRange
                ELSE IF ~refiningRange.hRange.isNil
                     THEN minSemiRange(r.hRange, refiningRange.hRange)
                     ELSE r.hRange]

\* typedValueRange.extendWith: the range r becomes
extendWith(r, extendingRange) ==
    [lRange |-> IF r.lRange.isNil \/ extendingRange.lRange.isNil
                THEN NilSemiRange
                ELSE minSemiRange(r.lRange, extendingRange.lRange),
     hRange |-> IF r.hRange.isNil \/ extendingRange.hRange.isNil
                THEN NilSemiRange
                ELSE maxSemiRange(r.hRange, extendingRange.hRange)]

\* rangesByColID[colID] = r
PutRange(rangesByColID, colID, r) ==
    [c \in DOMAIN rangesByColID \cup {colID} |->
        IF c = colID THEN r ELSE rangesByColID[c]]

\* updateRangeFor: the map rangesByColID becomes
updateRangeFor(colID, val, cmp, rangesByColID) ==
    IF cmp = NE THEN rangesByColID
    ELSE LET newRange ==
                 CASE cmp = EQ -> [lRange |-> SemiRange(val, TRUE),
                                   hRange |-> SemiRange(val, TRUE)]
                   [] cmp = LT -> [lRange |-> NilSemiRange,
                                   hRange |-> SemiRange(val, FALSE)]
                   [] cmp = LE -> [lRange |-> NilSemiRange,
                                   hRange |-> SemiRange(val, TRUE)]
                   [] cmp = GT -> [lRange |-> SemiRange(val, FALSE),
                                   hRange |-> NilSemiRange]
                   [] cmp = GE -> [lRange |-> SemiRange(val, TRUE),
                                   hRange |-> NilSemiRange]
         IN  IF colID \notin DOMAIN rangesByColID
             THEN PutRange(rangesByColID, colID, newRange)
             ELSE PutRange(rangesByColID, colID,
                           refineWith(rangesByColID[colID], newRange))

\* CmpBoolExp.selectorRanges: only a selector on the left compared with a
\* constant on the right gives a range
CmpSelectorRanges(bexp, rangesByColID) ==
    IF IsColSelector(bexp.left) /\ isConstant(bexp.right)
    THEN updateRangeFor(bexp.left[2], bexp.right[2], bexp.op, rangesByColID)
    ELSE rangesByColID

\* BinBoolExp.selectorRanges: the map rangesByColID becomes
RECURSIVE selectorRanges(_, _)
selectorRanges(bexp, rangesByColID) ==
    IF bexp.exp = "CmpBoolExp" THEN CmpSelectorRanges(bexp, rangesByColID)
    ELSE IF bexp.op = AND
         THEN selectorRanges(bexp.right, selectorRanges(bexp.left, rangesByColID))
         ELSE LET lRanges == selectorRanges(bexp.left, EmptyMap)
                  rRanges == selectorRanges(bexp.right, EmptyMap)
                  both == DOMAIN lRanges \cap DOMAIN rRanges
              IN  [c \in DOMAIN rangesByColID \cup both |->
                      IF c \in both THEN extendWith(lRanges[c], rRanges[c])
                      ELSE rangesByColID[c]]

\* the columns the comparisons of the model name
RangeCols == {ACol, BCol}

\* col op const
SelCmps(cols) ==
    {CmpBoolExp(op, ColSelector(c), Number(v)) :
        op \in CmpOperators, c \in cols, v \in 1..MaxConst}

\* const op col
ConstCmps(cols) ==
    {CmpBoolExp(op, Number(v), ColSelector(c)) :
        op \in CmpOperators, c \in cols, v \in 1..MaxConst}

\* the WHERE expressions of the model: one comparison, two comparisons, or
\* three comparisons of column a with constants
IsWhereOfModel(e) ==
    LET cmps == SelCmps(RangeCols) \cup ConstCmps(RangeCols)
        acmps == SelCmps({ACol})
    IN  \/ \E x \in cmps : e = x
        \/ \E op \in {AND, OR}, x, y \in cmps : e = BinBoolExp(op, x, y)
        \/ \E op1, op2 \in {AND, OR}, x, y, z \in acmps :
              \/ e = BinBoolExp(op1, BinBoolExp(op2, x, y), z)
              \/ e = BinBoolExp(op1, x, BinBoolExp(op2, y, z))

RangeInit ==
    /\ EngineInit
    /\ ConstraintIdle
    /\ IdleBut("none")
    /\ IsWhereOfModel(stmtWhere)
    /\ stmtRanges = EmptyMap
    /\ ranged = FALSE

\* SelectStmt.genScanSpecs derives the ranges of the WHERE expression
GenRanges ==
    /\ ~ranged
    /\ stmtRanges' = selectorRanges(stmtWhere, EmptyMap)
    /\ ranged' = TRUE
    /\ UNCHANGED <<stmtWhere, engineVars, constraintVars, laterVars>>

RangeNext == GenRanges

RangeSpec == RangeInit /\ [][RangeNext]_vars

(***************************************************************************)
(* SELECT: SelectStmt.compileUsing and SelectStmt.genScanSpecs             *)
(***************************************************************************)
ErrHavingClauseRequiresGroupClause == "HavingClauseRequiresGroupClause"
ErrLimitedGroupBy == "LimitedGroupBy"
ErrLimitedOrderBy == "LimitedOrderBy"
ErrNoAvailableIndex == "NoAvailableIndex"
ErrColumnDoesNotExist == "ColumnDoesNotExist"

\* a column name that is no column of the table
GhostCol == 4

PrimaryIndex == [id |-> PKIndexID, unique |-> TRUE, cols |-> <<IdCol>>]
NoIndex == [id |-> -1, unique |-> FALSE, cols |-> << >>]

\* the column tuples of the secondary indexes of the tables a SELECT reads
IndexTuples == {<<ACol>>, <<ACol, BCol>>, <<BCol>>}

\* the tables a SELECT reads: the primary index and up to two secondary
\* indexes, in the order of their creation
PlanTables ==
    {[indexes |-> <<PrimaryIndex>>]}
    \cup {[indexes |-> <<PrimaryIndex, [id |-> 1, unique |-> FALSE, cols |-> t]>>]
          : t \in IndexTuples}
    \cup {[indexes |-> <<PrimaryIndex, [id |-> 1, unique |-> FALSE, cols |-> t],
                         [id |-> 2, unique |-> FALSE, cols |-> u]>>]
          : <<t, u>> \in {x \in IndexTuples \X IndexTuples : x[1] # x[2]}}

ColsOf(cols) == {cols[i] : i \in 1..Len(cols)}

\* variant: the index is found by the set of its columns
indexesByCols_AnyOrder(tbl, cols) ==
    {tbl.indexes[i] :
        i \in {j \in 1..Len(tbl.indexes) : ColsOf(tbl.indexes[j].cols) = ColsOf(cols)}}

\* table.indexes[indexKeyFrom(cols)]: the indexes with exactly that tuple
indexesByCols(tbl, cols) ==
    {tbl.indexes[i] : i \in {j \in 1..Len(tbl.indexes) : tbl.indexes[j].cols = cols}}

\* table.indexesByColID[colID]: the indexes that hold the column, in the
\* order of their creation, from the i-th on
RECURSIVE indexesByColID(_, _, _)
indexesByColID(tbl, colID, i) ==
    IF i > Len(tbl.indexes) THEN << >>
    ELSE (IF colID \in ColsOf(tbl.indexes[i].cols) THEN <<tbl.indexes[i]>> ELSE << >>)
         \o indexesByColID(tbl, colID, i + 1)

\* typedValueRange.unitary
unitary(r) ==
    IF r.lRange.isNil \/ r.hRange.isNil THEN FALSE
    ELSE Compare(r.lRange.val, r.hRange.val) = 0
         /\ r.lRange.inclusive /\ r.hRange.inclusive

\* variant: an index sorts by any of its columns
sortableUsing_AnyColumn(index, colID, rangesByColID) ==
    \E i \in 1..Len(index.cols) : index.cols[i] = colID

\* Index.sortableUsing: the columns that precede colID in the index have
\* a unitary range
sortableUsing(index, colID, rangesByColID) ==
    \E i \in 1..Len(index.cols) :
        /\ index.cols[i] = colID
        /\ \A j \in 1..(i - 1) :
              /\ index.cols[j] # colID
              /\ index.cols[j] \in DOMAIN rangesByColID
              /\ unitary(rangesByColID[index.cols[j]])

\* an entry of stmt.orderBy
OrdCol(col, descOrder) == [col |-> col, descOrder |-> descOrder]

SelectStmt(isTableRef, implicitDB, indexOn, where, groupBy, having, orderBy) ==
    [kind |-> "SelectStmt", isTableRef |-> isTableRef, implicitDB |-> implicitDB,
     indexOn |-> indexOn, where |-> where, groupBy |-> groupBy,
     having |-> having, orderBy |-> orderBy]

\* variant: ORDER BY is accepted on a column without index
SelectCompileUsing_AnyOrderBy(tbl, stmt) ==
    LET fail(e) == [err |-> e, isNil |-> TRUE, db |-> 0, entries |-> 0]
    IN  IF ~stmt.implicitDB THEN fail(ErrNoDatabaseSelected)
        ELSE IF stmt.groupBy = 0 /\ stmt.having THEN fail(ErrHavingClauseRequiresGroupClause)
        ELSE IF stmt.groupBy > 1 THEN fail(ErrLimitedGroupBy)
        ELSE IF Len(stmt.orderBy) > 1 THEN fail(ErrLimitedOrderBy)
        ELSE IF Len(stmt.orderBy) > 0 /\ ~stmt.isTableRef THEN fail(ErrLimitedOrderBy)
        ELSE IF Len(stmt.orderBy) > 0 /\ stmt.orderBy[1].col = GhostCol
        THEN fail(ErrColumnDoesNotExist)
        ELSE [err |-> NoErr, isNil |-> FALSE, db |-> DbID, entries |-> 0]

\* SelectStmt.compileUsing: the error, or the summary with its database
SelectCompileUsing(tbl, stmt) ==
    LET fail(e) == [err |-> e, isNil |-> TRUE, db |-> 0, entries |-> 0]
    IN  IF ~stmt.implicitDB THEN fail(ErrNoDatabaseSelected)
        ELSE IF stmt.groupBy = 0 /\ stmt.having THEN fail(ErrHavingClauseRequiresGroupClause)
        ELSE IF stmt.groupBy > 1 THEN fail(ErrLimitedGroupBy)
        ELSE IF Len(stmt.orderBy) > 1 THEN fail(ErrLimitedOrderBy)
        ELSE IF Len(stmt.orderBy) > 0 /\ ~stmt.isTableRef THEN fail(ErrLimitedOrderBy)
        ELSE IF Len(stmt.orderBy) > 0 /\ stmt.orderBy[1].col = GhostCol
        THEN fail(ErrColumnDoesNotExist)
        ELSE IF Len(stmt.orderBy) > 0
                /\ indexesByColID(tbl, stmt.orderBy[1].col, 1) = << >>
        THEN fail(ErrLimitedOrderBy)
        ELSE [err |-> NoErr, isNil |-> FALSE, db |-> DbID, entries |-> 0]

\* the first index of the list that sorts by colID and is the preferred one,
\* if one is preferred
RECURSIVE FirstSortable(_, _, _, _)
FirstSortable(idxs, colID, rangesByColID, preferred) ==
    IF idxs = << >> THEN NoIndex
    ELSE IF /\ sortableUsing(Head(idxs), colID, rangesByColID)
            /\ preferred = NoIndex \/ Head(idxs).id = preferred.id
         THEN Head(idxs)
         ELSE FirstSortable(Tail(idxs), colID, rangesByColID, preferred)

\* SelectStmt.genScanSpecs: the error, or the scan specs (nil for a data
\* source that is no table)
genScanSpecs(tbl, stmt) ==
    LET none(e) == [err |-> e, isNil |-> TRUE, index |-> NoIndex,
                    rangesByColID |-> EmptyMap, descOrder |-> FALSE]
        rangesByColID == IF stmt.where = NoExp THEN EmptyMap
                         ELSE selectorRanges(stmt.where, EmptyMap)
        found == indexesByCols(tbl, stmt.indexOn)
        preferredIndex == IF Len(stmt.indexOn) > 0 /\ found # {}
                          THEN CHOOSE x \in found : TRUE ELSE NoIndex
        sortingIndex ==
            IF Len(stmt.orderBy) = 0
            THEN (IF preferredIndex = NoIndex THEN PrimaryIndex ELSE preferredIndex)
            ELSE FirstSortable(indexesByColID(tbl, stmt.orderBy[1].col, 1),
                               stmt.orderBy[1].col, rangesByColID, preferredIndex)
    IN  IF ~stmt.isTableRef THEN none(NoErr)
        ELSE IF ~stmt.implicitDB THEN none(ErrNoDatabaseSelected)
        ELSE IF GhostCol \in ColsOf(stmt.indexOn) THEN none(ErrColumnDoesNotExist)
        ELSE IF Len(stmt.indexOn) > 0 /\ found = {} THEN none(ErrNoAvailableIndex)
        ELSE IF Len(stmt.orderBy) > 0 /\ stmt.orderBy[1].col = GhostCol
        THEN none(ErrColumnDoesNotExist)
        ELSE IF sortingIndex = NoIndex THEN none(ErrNoAvailableIndex)
        ELSE [err |-> NoErr, isNil |-> FALSE, index |-> sortingIndex,
              rangesByColID |-> rangesByColID,
              descOrder |-> Len(stmt.orderBy) > 0 /\ stmt.orderBy[1].descOrder]

\* the SELECT statements of the model
IndexOns == {<< >>, <<IdCol>>, <<ACol>>, <<BCol>>, <<ACol, BCol>>, <<BCol, ACol>>, <<GhostCol>>}
PlanWheres ==
    {NoExp,
     CmpBoolExp(EQ, ColSelector(ACol), Number(1)),
     CmpBoolExp(GE, ColSelector(ACol), Number(1)),
     CmpBoolExp(EQ, ColSelector(BCol), Number(1))}
OrderBys ==
    {<< >>}
    \cup {<<OrdCol(c, d)>> : c \in ColIDs \cup {GhostCol}, d \in BOOLEAN}
    \cup {<<OrdCol(ACol, FALSE), OrdCol(BCol, FALSE)>>}

PlanInit ==
    /\ EngineInit /\ ~table.autoIncrementPK
    /\ ConstraintIdle /\ RangeIdle /\ IdleBut("plan")
    /\ planTable \in PlanTables
    /\ \E isTableRef \in BOOLEAN, implicitDB \in BOOLEAN, indexOn \in IndexOns,
          where \in PlanWheres, groupBy \in 0..2, having \in BOOLEAN,
          orderBy \in OrderBys :
          selStmt = SelectStmt(isTableRef, implicitDB, indexOn, where, groupBy,
                               having, orderBy)
    /\ selResult = NoResult
    /\ scanSpecs = NoResult

\* the statement is compiled
CompileSelect ==
    /\ selResult = NoResult
    /\ selResult' = SelectCompileUsing(planTable, selStmt)
    /\ UNCHANGED <<planTable, selStmt, scanSpecs, notPlanVars>>

\* the statement is planned
GenScanSpecs ==
    /\ scanSpecs = NoResult
    /\ scanSpecs' = genScanSpecs(planTable, selStmt)
    /\ UNCHANGED <<planTable, selStmt, selResult, notPlanVars>>

PlanNext == CompileSelect \/ GenScanSpecs

PlanSpec == PlanInit /\ [][PlanNext]_vars

(***************************************************************************)
(* Typed values: Compare, and CmpBoolExp.reduce on reduced operands        *)
(***************************************************************************)
ErrNotComparableValues == "NotComparableValues"

\* SQLValueType
IntegerType == "INTEGER"
BooleanType == "BOOLEAN"
VarcharType == "VARCHAR"
BLOBType == "BLOB"
AnyType == "ANY"

\* TypedValue: NullValue{t}, Number{val}, Bool{val}, Varchar{val}, Blob{val}
NullValue(t) == [null |-> TRUE, type |-> t, num |-> 0, bool |-> FALSE, bytes |-> << >>]
NumberValue(v) ==
    [null |-> FALSE, type |-> IntegerType, num |-> v, bool |-> FALSE, bytes |-> << >>]
BoolValue(v) ==
    [null |-> FALSE, type |-> BooleanType, num |-> 0, bool |-> v, bytes |-> << >>]
VarcharValue(v) ==
    [null |-> FALSE, type |-> VarcharType, num |-> 0, bool |-> FALSE, bytes |-> v]
BlobValue(v) ==
    [null |-> FALSE, type |-> BLOBType, num |-> 0, bool |-> FALSE, bytes |-> v]

\* bytes.Compare: lexicographic order of byte strings
RECURSIVE BytesCompare(_, _)
BytesCompare(a, b) ==
    IF a = << >> /\ b = << >> THEN 0
    ELSE IF a = << >> THEN -1
    ELSE IF b = << >> THEN 1
    ELSE IF Head(a) < Head(b) THEN -1
    ELSE IF Head(a) > Head(b) THEN 1
    ELSE BytesCompare(Tail(a), Tail(b))

CmpOut(r, e) == [r |-> r, err |-> e]

\* NullValue.Compare
NullValueCompare(n, val) ==
    IF n.type # AnyType /\ val.type # AnyType /\ n.type # val.type
    THEN CmpOut(0, ErrNotComparableValues)
    ELSE IF val.null THEN CmpOut(0, NoErr)
    ELSE CmpOut(-1, NoErr)

\* Number.Compare
NumberCompare(v, val) ==
    IF val.null THEN CmpOut(1, NoErr)
    ELSE IF val.type # IntegerType THEN CmpOut(0, ErrNotComparableValues)
    ELSE IF v.num = val.num THEN CmpOut(0, NoErr)
    ELSE IF v.num > val.num THEN CmpOut(1, NoErr)
    ELSE CmpOut(-1, NoErr)

\* Varchar.Compare
VarcharCompare(v, val) ==
    IF val.null THEN CmpOut(1, NoErr)
    ELSE IF val.type # VarcharType THEN CmpOut(0, ErrNotComparableValues)
    ELSE CmpOut(BytesCompare(v.bytes, val.bytes), NoErr)

\* Bool.Compare
BoolCompare(v, val) ==
    IF val.null THEN CmpOut(1, NoErr)
    ELSE IF val.type # BooleanType THEN CmpOut(0, ErrNotComparableValues)
    ELSE IF v.bool = val.bool THEN CmpOut(0, NoErr)
    ELSE IF v.bool THEN CmpOut(1, NoErr)
    ELSE CmpOut(-1, NoErr)

\* Blob.Compare
BlobCompare(v, val) ==
    IF val.null THEN CmpOut(1, NoErr)
    ELSE IF val.type # BLOBType THEN CmpOut(0, ErrNotComparableValues)
    ELSE CmpOut(BytesCompare(v.bytes, val.bytes), NoErr)

\* TypedValue.Compare, by the type of the receiver
TypedCompare(v, val) ==
    IF v.null THEN NullValueCompare(v, val)
    ELSE IF v.type = IntegerType THEN NumberCompare(v, val)
    ELSE IF v.type = VarcharType THEN VarcharCompare(v, val)
    ELSE IF v.type = BooleanType THEN BoolCompare(v, val)
    ELSE BlobCompare(v, val)

\* CmpBoolExp.reduce, from the values vl and vr its operands reduce to: the
\* result of Compare, the error, and the value of the Bool returned
CmpReduce(op, vl, vr) ==
    LET c == TypedCompare(vl, vr)
    IN  [r |-> c.r, err |-> c.err,
         val |-> c.err = NoErr /\ cmpSatisfiesOp(c.r, op)]

\* the typed values of the model
ByteStrings == {<< >>, <<1>>, <<1, 1>>, <<2>>}
TypedValues ==
    {NullValue(t) : t \in {AnyType, IntegerType, BooleanType, VarcharType, BLOBType}}
    \cup {NumberValue(v) : v \in {-1, 0, 1}}
    \cup {BoolValue(v) : v \in BOOLEAN}
    \cup {VarcharValue(v) : v \in ByteStrings}
    \cup {BlobValue(v) : v \in ByteStrings}

CompareInit ==
    /\ EngineInit /\ ~table.autoIncrementPK
    /\ ConstraintIdle /\ RangeIdle /\ IdleBut("cmp")
    /\ cmpLeft \in TypedValues
    /\ cmpRight \in TypedValues
    /\ cmpOp \in CmpOperators
    /\ cmpResult = NoResult

\* the comparison is evaluated
ReduceCmpBoolExp ==
    /\ cmpResult = NoResult
    /\ cmpResult' = CmpReduce(cmpOp, cmpLeft, cmpRight)
    /\ UNCHANGED <<cmpLeft, cmpRight, cmpOp, notCmpVars>>

CompareNext == ReduceCmpBoolExp

CompareSpec == CompareInit /\ [][CompareNext]_vars

(***************************************************************************)
(* Type inference: Param and CmpBoolExp over one params map                *)
(***************************************************************************)
ErrInferredMultipleTypes == "InferredMultipleTypes"
ErrInvalidTypes == "InvalidTypes"

\* params[id] is not set
Absent == "absent"

ParamIDs == {"p", "q"}
ConcreteTypes == {IntegerType, VarcharType, BooleanType}

\* the operands: a placeholder, or a constant of a concrete type
ParamExp(id) == [kind |-> "param", id |-> id, type |-> AnyType]
ConstExp(t) == [kind |-> "const", id |-> "", type |-> t]
Operands == {ParamExp(id) : id \in ParamIDs} \cup {ConstExp(t) : t \in ConcreteTypes}

InferOut(t, e, params) == [t |-> t, err |-> e, params |-> params]

\* Param.inferType
ParamInferType(id, params) ==
    IF params[id] = Absent
    THEN InferOut(AnyType, NoErr, [params EXCEPT ![id] = AnyType])
    ELSE InferOut(params[id], NoErr, params)

\* variant: the required type is recorded whatever type is recorded already
ParamRequiresType_Overwrite(id, t, params) ==
    InferOut(AnyType, NoErr, [params EXCEPT ![id] = t])

\* Param.requiresType (the type returned is not part of its result)
ParamRequiresType(id, t, params) ==
    IF params[id] # Absent /\ params[id] # t /\ params[id] # AnyType
    THEN InferOut(AnyType, ErrInferredMultipleTypes, params)
    ELSE InferOut(AnyType, NoErr, [params EXCEPT ![id] = t])

\* inferType of an operand: Param.inferType, Number.inferType
OperandInferType(e, params) ==
    IF e.kind = "param" THEN ParamInferType(e.id, params)
    ELSE InferOut(e.type, NoErr, params)

\* requiresType of an operand: Param.requiresType, Number.requiresType
OperandRequiresType(e, t, params) ==
    IF e.kind = "param" THEN ParamRequiresType(e.id, t, params)
    ELSE IF t # e.type THEN InferOut(AnyType, ErrInvalidTypes, params)
    ELSE InferOut(AnyType, NoErr, params)

\* CmpBoolExp.inferType
CmpInferType(left, right, params) ==
    LET l == OperandInferType(left, params)
        r == OperandInferType(right, l.params)
    IN  IF l.t = r.t THEN InferOut(BooleanType, NoErr, r.params)
        ELSE IF l.t # AnyType /\ r.t # AnyType
        THEN InferOut(AnyType, ErrInvalidTypes, r.params)
        ELSE IF l.t = AnyType
        THEN LET q == OperandRequiresType(left, r.t, r.params)
             IN  IF q.err # NoErr THEN q
                 ELSE InferOut(BooleanType, NoErr, q.params)
        ELSE LET q == OperandRequiresType(right, l.t, r.params)
             IN  IF q.err # NoErr THEN q
                 ELSE InferOut(BooleanType, NoErr, q.params)

\* CmpBoolExp.requiresType
CmpRequiresType(left, right, t, params) ==
    IF t # BooleanType THEN InferOut(AnyType, ErrInvalidTypes, params)
    ELSE LET i == CmpInferType(left, right, params)
         IN  InferOut(AnyType, i.err, i.params)

TypeCall(fn, id, t, left, right) ==
    [fn |-> fn, id |-> id, t |-> t, left |-> left, right |-> right]

TypeInit ==
    /\ EngineInit /\ ~table.autoIncrementPK
    /\ ConstraintIdle /\ RangeIdle /\ IdleBut("type")
    /\ typeParams = [id \in ParamIDs |-> Absent]
    /\ typeCall = NoStmt
    /\ typeRet = NoResult

\* the call returns out
Returned(call, out) ==
    /\ typeCall' = call
    /\ typeRet' = [t |-> out.t, err |-> out.err]
    /\ typeParams' = out.params
    /\ UNCHANGED notTypeVars

CallParamInferType ==
    /\ typeParams # NoStmt
    /\ \E id \in ParamIDs :
           Returned(TypeCall("Param.inferType", id, AnyType, NoStmt, NoStmt),
                    ParamInferType(id, typeParams))

CallParamRequiresType ==
    /\ typeParams # NoStmt
    /\ \E id \in ParamIDs, t \in ConcreteTypes :
           Returned(TypeCall("Param.requiresType", id, t, NoStmt, NoStmt),
                    ParamRequiresType(id, t, typeParams))

CallCmpInferType ==
    /\ typeParams # NoStmt
    /\ \E left \in Operands, right \in Operands :
           Returned(TypeCall("CmpBoolExp.inferType", "", AnyType, left, right),
                    CmpInferType(left, right, typeParams))

CallCmpRequiresType ==
    /\ typeParams # NoStmt
    /\ \E left \in Operands, right \in Operands, t \in ConcreteTypes :
           Returned(TypeCall("CmpBoolExp.requiresType", "", t, left, right),
                    CmpRequiresType(left, right, t, typeParams))

TypeNext ==
    \/ CallParamInferType \/ CallParamRequiresType
    \/ CallCmpInferType \/ CallCmpRequiresType

TypeSpec == TypeInit /\ [][TypeNext]_vars

(***************************************************************************)
(* TxStmt.compileUsing and TxSummary.add                                   *)
(***************************************************************************)
ErrDatabaseDoesNotExist == "DatabaseDoesNotExist"
ErrDatabaseAlreadyExists == "DatabaseAlreadyExists"
ErrTableDoesNotExist == "TableDoesNotExist"

\* "CTL.DATABASE."
catalogDatabasePrefix == <<67, 84, 76, 46, 68, 65, 84, 65, 66, 65, 83, 69, 46>>

\* a nil *Database
NoDB == 0

\* the names "db1", of the database DbID that holds the table, and "db2"
Db1Name == <<100, 98, 49>>
Db2Name == <<100, 98, 50>>

\* Catalog.GetDatabaseByName: the id of the database, NoDB if there is none
GetDatabaseByName(dbs, name) ==
    IF \E i \in 1..Len(dbs) : dbs[i] = name
    THEN CHOOSE i \in 1..Len(dbs) : dbs[i] = name
    ELSE NoDB

UseDatabaseStmt(name) == [kind |-> "UseDatabaseStmt", DB |-> name, stmt |-> NoStmt]
CreateDatabaseStmt(name) == [kind |-> "CreateDatabaseStmt", DB |-> name, stmt |-> NoStmt]
UpsertSubStmt(s) == [kind |-> "UpsertIntoStmt", DB |-> << >>, stmt |-> s]
CreateIndexSubStmt(s) == [kind |-> "CreateIndexStmt", DB |-> << >>, stmt |-> s]

\* newTxSummary(db), and the state compileUsing leaves: the table and the
\* catalog; errs holds the errors the compilation can fail with
SubOut(errs, db, tbl, dbs) ==
    [errs |-> errs, db |-> db, ces |-> << >>, des |-> << >>, updatedRows |-> 0,
     lastInsertedPKs |-> << >>, rows |-> << >>, tbl |-> tbl, dbs |-> dbs]

\* UseDatabaseStmt.compileUsing
UseDatabaseCompileUsing(s, implicitDB, tbl, dbs) ==
    LET db == GetDatabaseByName(dbs, s.DB)
    IN  IF db = NoDB THEN SubOut({ErrDatabaseDoesNotExist}, NoDB, tbl, dbs)
        ELSE SubOut({}, db, tbl, dbs)

\* CreateDatabaseStmt.compileUsing
CreateDatabaseCompileUsing(s, implicitDB, tbl, dbs) ==
    LET id == Len(dbs) + 1
    IN  IF GetDatabaseByName(dbs, s.DB) # NoDB
        THEN SubOut({ErrDatabaseAlreadyExists}, NoDB, tbl, dbs)
        ELSE [SubOut({}, id, tbl, Append(dbs, s.DB)) EXCEPT
                 !.ces = <<[Key |-> mapKey(catalogDatabasePrefix, <<EncodeID(id)>>),
                            Value |-> s.DB,
                            Constraint |-> NoConstraint]>>]

\* UpsertIntoStmt.compileUsing with the database implicitDB: the table is a
\* table of the database DbID
UpsertSubCompileUsing(s, implicitDB, tbl, st, dbs) ==
    IF implicitDB \notin {NoDB, DbID}
    THEN SubOut({ErrTableDoesNotExist}, NoDB, tbl, dbs)
    ELSE LET out == UpsertCompileUsing(tbl, st,
                        [s.stmt EXCEPT !.implicitDB = (implicitDB # NoDB)])
         IN  [errs |-> out.errs, db |-> implicitDB, ces |-> << >>, des |-> out.des,
              updatedRows |-> out.updatedRows,
              lastInsertedPKs |-> out.lastInsertedPKs, rows |-> out.rows,
              tbl |-> [tbl EXCEPT !.maxPK = out.maxPK], dbs |-> dbs]

\* CreateIndexStmt.compileUsing with the database implicitDB: the table is
\* a table of the database DbID
CreateIndexSubCompileUsing(s, implicitDB, tbl, st, dbs) ==
    IF Len(s.stmt.cols) >= 1 /\ implicitDB \notin {NoDB, DbID}
    THEN SubOut({ErrTableDoesNotExist}, NoDB, tbl, dbs)
    ELSE LET out == CreateIndexCompileUsing(tbl, st,
                        [s.stmt EXCEPT !.implicitDB = (implicitDB # NoDB)])
         IN  [errs |-> IF out.err = NoErr THEN {} ELSE {out.err},
              db |-> implicitDB, ces |-> out.ces, des |-> << >>,
              updatedRows |-> 0, lastInsertedPKs |-> << >>, rows |-> << >>,
              tbl |-> out.table, dbs |-> dbs]

\* SQLStmt.compileUsing of a substatement
SubCompileUsing(s, implicitDB, tbl, st, dbs) ==
    IF s.kind = "UseDatabaseStmt" THEN UseDatabaseCompileUsing(s, implicitDB, tbl, dbs)
    ELSE IF s.kind = "CreateDatabaseStmt"
    THEN CreateDatabaseCompileUsing(s, implicitDB, tbl, dbs)
    ELSE IF s.kind = "CreateIndexStmt"
    THEN CreateIndexSubCompileUsing(s, implicitDB, tbl, st, dbs)
    ELSE UpsertSubCompileUsing(s, implicitDB, tbl, st, dbs)

\* variant: the entries of the added summary are put first and its database
\* is not selected
TxSummaryAdd_Prepend(s, sub) ==
    [s EXCEPT !.updatedRows = s.updatedRows + sub.updatedRows,
              !.ces = sub.ces \o s.ces,
              !.des = sub.des \o s.des,
              !.lastInsertedPKs = IF sub.lastInsertedPKs # << >>
                                  THEN sub.lastInsertedPKs ELSE s.lastInsertedPKs]

\* TxSummary.add
TxSummaryAdd(s, sub) ==
    [s EXCEPT !.db = sub.db,
              !.updatedRows = s.updatedRows + sub.updatedRows,
              !.ces = s.ces \o sub.ces,
              !.des = s.des \o sub.des,
              !.lastInsertedPKs = IF sub.lastInsertedPKs # << >>
                                  THEN sub.lastInsertedPKs ELSE s.lastInsertedPKs]

\* the loop of TxStmt.compileUsing from the substatement i on; trace keeps
\* the database each compiled substatement was given and what it returned
RECURSIVE TxCompileFrom(_, _, _, _)
TxCompileFrom(stmts, i, st, acc) ==
    IF i > Len(stmts) \/ acc.errs # {} THEN acc
    ELSE LET out == SubCompileUsing(stmts[i], acc.summary.db, acc.tbl, st, acc.dbs)
             step == [implicitDB |-> acc.summary.db, errs |-> out.errs,
                      db |-> out.db, ces |-> out.ces, des |-> out.des,
                      updatedRows |-> out.updatedRows,
                      lastInsertedPKs |-> out.lastInsertedPKs, rows |-> out.rows,
                      tbl |-> acc.tbl]
         IN  TxCompileFrom(stmts, i + 1, st,
                 [errs |-> out.errs,
                  summary |-> IF out.errs # {} THEN acc.summary
                              ELSE TxSummaryAdd(acc.summary, out),
                  tbl |-> out.tbl, dbs |-> out.dbs,
                  trace |-> Append(acc.trace, step)])

\* newTxSummary
newTxSummary(db) ==
    [db |-> db, ces |-> << >>, des |-> << >>, updatedRows |-> 0,
     lastInsertedPKs |-> << >>]

\* Engine.Exec commits the catalog entries, then the data entries
TxBatch(s) == s.ces \o s.des

\* variant: the summary built so far is returned with the error
TxReturn_Partial(s, e) ==
    [err |-> e, isNil |-> FALSE, db |-> s.db, ces |-> s.ces, des |-> s.des,
     updatedRows |-> s.updatedRows, lastInsertedPKs |-> s.lastInsertedPKs,
     batch |-> TxBatch(s)]

\* the return of TxStmt.compileUsing: nil, err or summary, nil
TxReturn(s, e) ==
    IF e # NoErr
    THEN [err |-> e, isNil |-> TRUE, db |-> NoDB, ces |-> << >>, des |-> << >>,
          updatedRows |-> 0, lastInsertedPKs |-> << >>, batch |-> << >>]
    ELSE [err |-> e, isNil |-> FALSE, db |-> s.db, ces |-> s.ces, des |-> s.des,
          updatedRows |-> s.updatedRows, lastInsertedPKs |-> s.lastInsertedPKs,
          batch |-> TxBatch(s)]

\* TxStmt.compileUsing
TxCompileUsing(stmts, implicitDB, tbl, st, dbs) ==
    TxCompileFrom(stmts, 1, st,
        [errs |-> {}, summary |-> newTxSummary(implicitDB), tbl |-> tbl,
         dbs |-> dbs, trace |-> << >>])

\* the substatements of the model
TxSubStmts ==
    {UseDatabaseStmt(Db1Name), UseDatabaseStmt(Db2Name), CreateDatabaseStmt(Db2Name),
     UpsertSubStmt(UpsertIntoStmt(FALSE, TRUE, {IdCol, ACol},
                                  <<(IdCol :> 1 @@ ACol :> 1)>>)),
     UpsertSubStmt(UpsertIntoStmt(TRUE, TRUE, {ACol}, <<(ACol :> 1)>>)),
     UpsertSubStmt(UpsertIntoStmt(FALSE, TRUE, {IdCol, ACol},
                                  <<(IdCol :> 2 @@ ACol :> 2), (ACol :> 1),
                                    (IdCol :> 1 @@ ACol :> 2)>>))}

\* the longest TxStmt
TxLens == 0..3

TxInit ==
    /\ EngineInit
    /\ ConstraintIdle /\ RangeIdle /\ IdleBut("tx")
    /\ txDbs = <<Db1Name>>
    /\ txImplicitDB \in {NoDB, DbID}
    /\ txStmts \in UNION {[1..n -> TxSubStmts] : n \in TxLens}
    /\ txTrace = << >>
    /\ txResult = NoResult

\* the TxStmt is compiled
CompileTx ==
    /\ txResult = NoResult
    /\ \E out \in {TxCompileUsing(txStmts, txImplicitDB, table, store, txDbs)} :
       \E e \in (IF out.errs = {} THEN {NoErr} ELSE out.errs) :
           /\ txResult' = TxReturn(out.summary, e)
           /\ txTrace' = out.trace
           /\ table' = out.tbl
           /\ txDbs' = out.dbs
    /\ UNCHANGED <<txImplicitDB, txStmts, notTxVars>>

TxNext == CompileTx

TxSpec == TxInit /\ [][TxNext]_vars

\* the substatements of a TxStmt that writes rows and creates an index
TxIndexSubStmts ==
    {UseDatabaseStmt(Db1Name),
     UpsertSubStmt(UpsertIntoStmt(FALSE, TRUE, {IdCol, ACol},
                                  <<(IdCol :> 1 @@ ACol :> 1)>>)),
     UpsertSubStmt(UpsertIntoStmt(TRUE, TRUE, {IdCol, ACol},
                                  <<(IdCol :> 2 @@ ACol :> 2)>>)),
     UpsertSubStmt(UpsertIntoStmt(TRUE, TRUE, {ACol}, <<(ACol :> 1)>>)),
     CreateIndexSubStmt(CreateIndexStmt(FALSE, TRUE, <<ACol>>)),
     CreateIndexSubStmt(CreateIndexStmt(TRUE, TRUE, <<ACol>>))}

\* the table has no rows and no secondary index; the TxStmt creates at most
\* one index
TxIndexInit ==
    /\ EngineInit
    /\ ConstraintIdle /\ RangeIdle /\ IdleBut("tx")
    /\ txDbs = <<Db1Name>>
    /\ txImplicitDB \in {NoDB, DbID}
    /\ txStmts \in UNION {[1..n -> TxIndexSubStmts] : n \in TxLens}
    /\ \A i, j \in 1..Len(txStmts) :
          (txStmts[i].kind = "CreateIndexStmt" /\ txStmts[j].kind = "CreateIndexStmt")
              => i = j
    /\ txTrace = << >>
    /\ txResult = NoResult

TxIndexSpec == TxIndexInit /\ [][TxNext]_vars

(***************************************************************************)
(* SelectStmt.Resolve: the limit reader                                    *)
(***************************************************************************)
\* the largest N of LIMIT N
MaxLimit == 4
\* the most rows the pipeline under the limit yields
MaxScan == 4

ErrNoMoreEntries == "NoMoreEntries"

\* SelectStmt.limit: the N of LIMIT N, 0 without a LIMIT clause
StmtLimit(given, n) == IF given THEN n ELSE 0

\* the end of SelectStmt.Resolve: the limit reader is stacked on the
\* pipeline if stmt.limit > 0
ResolveLimit(limit) ==
    [stacked |-> limit > 0, limit |-> limit, yielded |-> 0]

\* Read of the reader Resolve returned, the pipeline yielding scan rows: a
\* limit reader fails with ErrNoMoreEntries after limit rows
ReaderRead(reader, scan) ==
    IF reader.stacked /\ reader.yielded >= reader.limit
    THEN [err |-> ErrNoMoreEntries, reader |-> reader]
    ELSE IF reader.yielded >= scan
    THEN [err |-> ErrNoMoreEntries, reader |-> reader]
    ELSE [err |-> NoErr, reader |-> [reader EXCEPT !.yielded = reader.yielded + 1]]

LimitInit ==
    /\ EngineInit /\ ~table.autoIncrementPK
    /\ ConstraintIdle /\ RangeIdle /\ IdleBut("limit")
    /\ limGiven \in BOOLEAN
    /\ limN \in 0..MaxLimit
    /\ ~limGiven => limN = 0
    /\ limScan \in 0..MaxScan
    /\ limReader = NoStmt
    /\ limRead = 0
    /\ limErr = NoErr

\* the SELECT is resolved
ResolveSelect ==
    /\ limReader = NoStmt
    /\ limReader' = ResolveLimit(StmtLimit(limGiven, limN))
    /\ UNCHANGED <<limGiven, limN, limScan, limRead, limErr, notLimVars>>

\* a row is read, until the reader is exhausted
ReadRow ==
    /\ limReader # NoStmt
    /\ limErr = NoErr
    /\ \E out \in {ReaderRead(limReader, limScan)} :
           /\ limReader' = out.reader
           /\ limErr' = out.err
           /\ limRead' = IF out.err = NoErr THEN limRead + 1 ELSE limRead
    /\ UNCHANGED <<limGiven, limN, limScan, notLimVars>>

LimitNext == ResolveSelect \/ ReadRow

LimitSpec == LimitInit /\ [][LimitNext]_vars

(***************************************************************************)
(* ValueExp.substitute, then reduce, of the expression of a statement      *)
(***************************************************************************)
\* the most substitute calls on one statement
MaxSubst == 2

ErrMissingParameter == "MissingParameter"
ErrUnexpected == "Unexpected"
ErrInvalidValue == "InvalidValue"
ErrInvalidCondition == "InvalidCondition"

\* NumOperator
ADDOP == "+"
SUBSOP == "-"

\* ValueExp: Param, Number, NumExp, NotBoolExp (CmpBoolExp and BinBoolExp
\* are defined with the ranges)
Param(id) == [exp |-> "Param", id |-> id]
NumberLit(v) == [exp |-> "Number", val |-> v]
NumExp(op, left, right) == [exp |-> "NumExp", op |-> op, left |-> left, right |-> right]
NotBoolExp(e) == [exp |-> "NotBoolExp", inner |-> e]

\* the result of substitute: the error, the expression returned, and the
\* receiver as the call leaves it
SubstOut(e, ret, self) == [err |-> e, exp |-> ret, self |-> self]

\* Param.substitute, for parameters that are integers
ParamSubstitute(p, params) ==
    IF p.id \notin DOMAIN params THEN SubstOut(ErrMissingParameter, NoExp, p)
    ELSE SubstOut(NoErr, NumberLit(params[p.id]), p)

\* ValueExp.substitute: Param.substitute, Number.substitute,
\* NotBoolExp.substitute, and NumExp.substitute, CmpBoolExp.substitute and
\* BinBoolExp.substitute, which assign the operands returned to the
\* receiver and return the receiver
RECURSIVE ExpSubstitute(_, _)
ExpSubstitute(e, params) ==
    IF e.exp = "Param" THEN ParamSubstitute(e, params)
    ELSE IF e.exp = "Number" THEN SubstOut(NoErr, e, e)
    ELSE IF e.exp = "NotBoolExp"
    THEN LET r == ExpSubstitute(e.inner, params)
         IN  IF r.err # NoErr
             THEN SubstOut(r.err, NoExp, [e EXCEPT !.inner = r.self])
             ELSE SubstOut(NoErr, [e EXCEPT !.inner = r.exp],
                           [e EXCEPT !.inner = r.exp])
    ELSE LET rl == ExpSubstitute(e.left, params)
         IN  IF rl.err # NoErr
             THEN SubstOut(rl.err, NoExp, [e EXCEPT !.left = rl.self])
             ELSE LET rr == ExpSubstitute(e.right, params)
                  IN  IF rr.err # NoErr
                      THEN SubstOut(rr.err, NoExp,
                                    [e EXCEPT !.left = rl.self, !.right = rr.self])
                      ELSE SubstOut(NoErr,
                                    [e EXCEPT !.left = rl.exp, !.right = rr.exp],
                                    [e EXCEPT !.left = rl.exp, !.right = rr.exp])

\* the result of reduce: the error, or the value
ReduceOut(e, v) == [err |-> e, value |-> v]
NoValue == NullValue(AnyType)

\* ValueExp.reduce of an expression without column selectors
RECURSIVE ExpReduce(_)
ExpReduce(e) ==
    IF e.exp = "Param" THEN ReduceOut(ErrUnexpected, NoValue)
    ELSE IF e.exp = "Number" THEN ReduceOut(NoErr, NumberValue(e.val))
    ELSE IF e.exp = "NotBoolExp"
    THEN LET v == ExpReduce(e.inner)
         IN  IF v.err # NoErr THEN v
             ELSE IF v.value.null \/ v.value.type # BooleanType
             THEN ReduceOut(ErrInvalidCondition, NoValue)
             ELSE ReduceOut(NoErr, BoolValue(~v.value.bool))
    ELSE LET vl == ExpReduce(e.left)
             vr == ExpReduce(e.right)
         IN  IF vl.err # NoErr THEN vl
             ELSE IF vr.err # NoErr THEN vr
             ELSE IF e.exp = "NumExp"
             THEN IF vl.value.null \/ vl.value.type # IntegerType
                     \/ vr.value.null \/ vr.value.type # IntegerType
                  THEN ReduceOut(ErrInvalidValue, NoValue)
                  ELSE IF e.op = ADDOP
                  THEN ReduceOut(NoErr, NumberValue(vl.value.num + vr.value.num))
                  ELSE ReduceOut(NoErr, NumberValue(vl.value.num - vr.value.num))
             ELSE IF e.exp = "CmpBoolExp"
             THEN LET c == TypedCompare(vl.value, vr.value)
                  IN  IF c.err # NoErr THEN ReduceOut(c.err, NoValue)
                      ELSE ReduceOut(NoErr, BoolValue(cmpSatisfiesOp(c.r, e.op)))
             ELSE IF vl.value.null \/ vl.value.type # BooleanType
                     \/ vr.value.null \/ vr.value.type # BooleanType
             THEN ReduceOut(ErrInvalidValue, NoValue)
             ELSE IF e.op = AND
             THEN ReduceOut(NoErr, BoolValue(vl.value.bool /\ vr.value.bool))
             ELSE ReduceOut(NoErr, BoolValue(vl.value.bool \/ vr.value.bool))

\* the expressions of the model, over the parameters p and q
SubstExps ==
    {CmpBoolExp(EQ, Param("p"), NumberLit(1)),
     NotBoolExp(CmpBoolExp(EQ, Param("p"), NumberLit(1))),
     BinBoolExp(AND, CmpBoolExp(EQ, Param("p"), NumberLit(1)),
                     CmpBoolExp(LT, Param("q"), NumberLit(2))),
     CmpBoolExp(EQ, NumExp(ADDOP, Param("p"), NumberLit(1)), Param("q")),
     NumExp(SUBSOP, Param("q"), Param("p"))}

\* the parameters of a call: integers for some of p and q
ParamMaps == UNION {[S -> {1, 2}] : S \in SUBSET {"p", "q"}}

SubstInit ==
    /\ EngineInit /\ ~table.autoIncrementPK
    /\ ConstraintIdle /\ RangeIdle /\ IdleBut("subst")
    /\ subParsed \in SubstExps
    /\ subStmt = subParsed
    /\ subParams = << >>
    /\ subCalls = 0
    /\ subOut = NoResult

\* the statement is executed with params: its expression is substituted and
\* the expression returned is reduced
SubstituteAndReduce ==
    /\ subCalls < MaxSubst
    /\ \E params \in ParamMaps :
       \E out \in {ExpSubstitute(subStmt, params)} :
           /\ subStmt' = out.self
           /\ subParams' = params
           /\ subOut' = IF out.err # NoErr THEN ReduceOut(out.err, NoValue)
                        ELSE ExpReduce(out.exp)
    /\ subCalls' = subCalls + 1
    /\ UNCHANGED <<subParsed, notSubstVars>>

SubstNext == SubstituteAndReduce

SubstSpec == SubstInit /\ [][SubstNext]_vars

(***************************************************************************)
(* CreateTableStmt.compileUsing                                            *)
(***************************************************************************)
nullableFlag == 1
autoIncrementFlag == 2

ErrLimitedAutoIncrement == "LimitedAutoIncrement"
ErrTableAlreadyExists == "TableAlreadyExists"

\* "CTL.TABLE." and "CTL.COLUMN."
catalogTablePrefix == <<67, 84, 76, 46, 84, 65, 66, 76, 69, 46>>
catalogColumnPrefix == <<67, 84, 76, 46, 67, 79, 76, 85, 77, 78, 46>>

\* []byte(colType)
TypeBytes(t) ==
    IF t = IntegerType THEN <<73, 78, 84, 69, 71, 69, 82>>
    ELSE <<86, 65, 82, 67, 72, 65, 82>>

\* ColSpec
ColSpec(colName, colType, maxLen, ai, nn) ==
    [colName |-> colName, colType |-> colType, maxLen |-> maxLen,
     autoIncrement |-> ai, notNull |-> nn]

\* Column.MaxLen: the length of the type, or the declared one
ColMaxLen(col) == IF col.colType = IntegerType THEN 8 ELSE col.maxLen

\* the value of the catalog entry of a column: v[0] with the flags, v[1:5]
\* the max length, v[5:] the name
ColumnEntryValue(col) ==
    <<(IF col.autoIncrement THEN autoIncrementFlag ELSE 0)
      + (IF col.notNull THEN nullableFlag ELSE 0)>>
    \o U32(ColMaxLen(col)) \o col.colName

\* the catalog entries of the columns from the column id on, or the error
RECURSIVE ColumnEntries(_, _)
ColumnEntries(cols, id) ==
    IF id > Len(cols) THEN [err |-> NoErr, ces |-> << >>]
    ELSE IF cols[id].autoIncrement /\ id # 1
    THEN [err |-> ErrLimitedAutoIncrement, ces |-> << >>]
    ELSE LET rest == ColumnEntries(cols, id + 1)
         IN  IF rest.err # NoErr THEN rest
             ELSE [err |-> NoErr,
                   ces |-> <<[Key |-> mapKey(catalogColumnPrefix,
                                             <<EncodeID(DbID), EncodeID(TableID),
                                               EncodeID(id), TypeBytes(cols[id].colType)>>),
                              Value |-> ColumnEntryValue(cols[id]),
                              Constraint |-> NoConstraint]>> \o rest.ces]

CreateTableStmt(tableName, ifNotExists, implicitDB, colsSpec) ==
    [kind |-> "CreateTableStmt", table |-> tableName, ifNotExists |-> ifNotExists,
     implicitDB |-> implicitDB, colsSpec |-> colsSpec]

\* CreateTableStmt.compileUsing: the primary key is the first column, whose
\* id is 1; the table is the first of its database
CreateTableCompileUsing(stmt, exists, st) ==
    LET fail(e) == [err |-> e, isNil |-> TRUE, ces |-> << >>]
        tbl == [autoIncrementPK |-> stmt.colsSpec[1].autoIncrement, maxPK |-> 0,
                indexes |-> << >>]
        idx == CreateIndexCompileUsing(tbl, st,
                   CreateIndexStmt(TRUE, stmt.implicitDB, <<IdCol>>))
        cols == ColumnEntries(stmt.colsSpec, 1)
        te == [Key |-> mapKey(catalogTablePrefix, <<EncodeID(DbID), EncodeID(TableID)>>),
               Value |-> stmt.table,
               Constraint |-> NoConstraint]
    IN  IF ~stmt.implicitDB THEN fail(ErrNoDatabaseSelected)
        ELSE IF stmt.ifNotExists /\ exists
        THEN [err |-> NoErr, isNil |-> FALSE, ces |-> << >>]
        ELSE IF exists THEN fail(ErrTableAlreadyExists)
        ELSE IF idx.err # NoErr THEN fail(idx.err)
        ELSE IF cols.err # NoErr THEN fail(cols.err)
        ELSE [err |-> NoErr, isNil |-> FALSE, ces |-> idx.ces \o cols.ces \o <<te>>]

\* the column specifications of the model: columns "id" and "a"
ColSpecs(colName) ==
    {ColSpec(colName, t, 2, ai, nn) :
        t \in {IntegerType, VarcharType}, ai \in BOOLEAN, nn \in BOOLEAN}

CreateTableInit ==
    /\ EngineInit /\ ~table.autoIncrementPK
    /\ ConstraintIdle /\ RangeIdle /\ IdleBut("ct")
    /\ ctExists \in BOOLEAN
    /\ ctStmt \in {CreateTableStmt(<<116>>, ine, db, cs) :
                      ine \in BOOLEAN, db \in BOOLEAN,
                      cs \in {<<c>> : c \in ColSpecs(<<105, 100>>)}
                             \cup {<<c, d>> : c \in ColSpecs(<<105, 100>>),
                                              d \in ColSpecs(<<97>>)}}
    /\ ctResult = NoResult

\* the CREATE TABLE is compiled
CompileCreateTable ==
    /\ ctResult = NoResult
    /\ ctResult' = CreateTableCompileUsing(ctStmt, ctExists, store)
    /\ UNCHANGED <<ctStmt, ctExists, notCtVars>>

CreateTableNext == CompileCreateTable

CreateTableSpec == CreateTableInit /\ [][CreateTableNext]_vars

(***************************************************************************)
(* Exec of an UPSERT whose rows name one primary key twice                 *)
(***************************************************************************)
\* Exec of a statement with two rows of the same primary key: the rows are
\* compiled in order against the committed store and their entries are
\* committed as one batch
ExecUpsertSamePK ==
    /\ lastStmt = NoStmt
    /\ UNCHANGED <<constraintVars, rangeVars, laterVars>>
    /\ ~table.autoIncrementPK
    /\ \E isInsert \in BOOLEAN, pk \in StmtPKs, a1 \in AVals, a2 \in AVals :
       \E s \in {UpsertIntoStmt(isInsert, TRUE, {IdCol, ACol},
                                <<[c \in {IdCol, ACol} |-> IF c = IdCol THEN pk ELSE a1],
                                  [c \in {IdCol, ACol} |-> IF c = IdCol THEN pk ELSE a2]>>)} :
       \E out \in {UpsertCompileUsing(table, store, s)} :
       \E cerr \in CommitErrs(out.des, store) :
        /\ out.errs = {}
        /\ lastStmt' = s
        /\ table' = [table EXCEPT !.maxPK = out.maxPK]
        /\ mutated' = (mutated \/ out.mutated)
        /\ compiled' = out.rows
        /\ summary' = [isNil |-> FALSE, ces |-> << >>, des |-> out.des,
                       updatedRows |-> out.updatedRows,
                       lastInsertedPKs |-> out.lastInsertedPKs]
        /\ err' = cerr
        /\ IF cerr = NoErr
           THEN /\ store' = CommitBatch(out.des, store)
                /\ written' = WriteRows(written, out.rows)
           ELSE UNCHANGED <<store, written>>

SamePKNext == ExecUpsertSamePK \/ ExecCreateIndex \/ Return

SamePKSpec == Init /\ [][SamePKNext]_vars

(***************************************************************************)
(* Exec calls of two callers: the rows of a statement are compiled one by  *)
(* one, then its entries are committed; the steps of the callers interleave *)
(***************************************************************************)
\* the auto-increment PKs the model gives
MaxGiven == 4

\* variant: the counter a statement advances is the one it read when it began
SharedMaxPK_Cached(tbl, acc) == acc.maxPK

\* table.maxPK: the counter of the table of the catalog, shared by the callers
SharedMaxPK(tbl, acc) == tbl.maxPK

\* the statements of the callers: INSERT of one or two rows into the
\* auto-increment table, UPSERT of one row of the PK 1 into the other
ConcStmts(tbl) ==
    IF tbl.autoIncrementPK
    THEN {UpsertIntoStmt(TRUE, TRUE, {ACol}, rows) :
             rows \in {<<(ACol :> 1)>>, <<(ACol :> 2)>>, <<(ACol :> 1), (ACol :> 2)>>}}
    ELSE {UpsertIntoStmt(FALSE, TRUE, {IdCol, ACol}, <<(IdCol :> 1 @@ ACol :> a)>>) :
             a \in AVals}

\* the table has a secondary index on (a), created when it had no rows
ConcInit ==
    /\ ConstraintIdle /\ RangeIdle /\ IdleBut("none")
    /\ mutated = FALSE
    /\ lastStmt = NoStmt
    /\ summary = NilSummary
    /\ err = NoErr
    /\ compiled = << >>
    /\ written = EmptyMap
    /\ \E ai \in BOOLEAN, unique \in BOOLEAN :
       \E out \in {CreateIndexCompileUsing(
                      [autoIncrementPK |-> ai, maxPK |-> 0,
                       indexes |-> <<[id |-> PKIndexID, unique |-> TRUE,
                                      cols |-> <<IdCol>>]>>],
                      EmptyMap, CreateIndexStmt(unique, TRUE, <<ACol>>))} :
           /\ table = out.table
           /\ store = CommitBatch(out.ces, EmptyMap)

\* Exec is called by the caller c
BeginExec(c) ==
    /\ ccStmt[c] = NoStmt
    /\ \E s \in ConcStmts(table) :
        /\ ccStmt' = [ccStmt EXCEPT ![c] = s]
        /\ ccNext' = [ccNext EXCEPT ![c] = 1]
        /\ ccAcc' = [ccAcc EXCEPT ![c] =
                        [errs |-> {}, maxPK |-> table.maxPK, mutated |-> FALSE,
                         des |-> << >>, updatedRows |-> 0,
                         lastInsertedPKs |-> << >>, rows |-> << >>]]
    /\ UNCHANGED <<table, mutated, store, ccErr, ccGiven, notConcVars>>

\* one iteration of the loop over stmt.rows of the caller c: the old row
\* is read from the committed store
CompileNextRow(c) ==
    /\ ccStmt[c] # NoStmt
    /\ ccNext[c] <= Len(ccStmt[c].rows)
    /\ ccAcc[c].errs = {}
    /\ Len(ccGiven) < MaxGiven
    /\ \E out \in {CompileRow(table, store, ccStmt[c], ccStmt[c].rows[ccNext[c]],
                              [ccAcc[c] EXCEPT !.maxPK = SharedMaxPK(table, ccAcc[c])])} :
        /\ ccAcc' = [ccAcc EXCEPT ![c] = out]
        /\ table' = [table EXCEPT !.maxPK = out.maxPK]
        /\ mutated' = (mutated \/ out.mutated)
        /\ ccGiven' = IF ccStmt[c].isInsert /\ table.autoIncrementPK /\ out.errs = {}
                      THEN Append(ccGiven, out.rows[Len(out.rows)][IdCol])
                      ELSE ccGiven
    /\ ccNext' = [ccNext EXCEPT ![c] = ccNext[c] + 1]
    /\ UNCHANGED <<store, ccStmt, ccErr, notConcVars>>

\* the entries of the statement of the caller c are committed
CommitExec(c) ==
    /\ ccStmt[c] # NoStmt
    /\ ccNext[c] > Len(ccStmt[c].rows)
    /\ ccAcc[c].errs = {}
    /\ ccErr[c] = Pending
    /\ \E cerr \in CommitErrs(ccAcc[c].des, store) :
        /\ ccErr' = [ccErr EXCEPT ![c] = cerr]
        /\ store' = IF cerr = NoErr THEN CommitBatch(ccAcc[c].des, store) ELSE store
    /\ UNCHANGED <<table, mutated, ccStmt, ccNext, ccAcc, ccGiven, notConcVars>>

\* Exec returns to the caller c
ReturnExec(c) ==
    /\ ccStmt[c] # NoStmt
    /\ ccErr[c] # Pending \/ ccAcc[c].errs # {}
    /\ ccStmt' = [ccStmt EXCEPT ![c] = NoStmt]
    /\ ccNext' = [ccNext EXCEPT ![c] = 0]
    /\ ccAcc' = [ccAcc EXCEPT ![c] = NoResult]
    /\ ccErr' = [ccErr EXCEPT ![c] = Pending]
    /\ UNCHANGED <<table, mutated, store, ccGiven, notConcVars>>

ConcNext ==
    \E c \in Callers :
        BeginExec(c) \/ CompileNextRow(c) \/ CommitExec(c) \/ ReturnExec(c)

ConcSpec == ConcInit /\ [][ConcNext]_vars

(***************************************************************************)
(* SelectStmt.Resolve: the readers of the pipeline                         *)
(***************************************************************************)
\* a selector of the select list: a column or an aggregation
ColSel == "ColSelector"
AggSel == "AggColSelector"

\* the readers: newRawRowReader, newJointRowReader, newConditionalRowReader
\* (with the condition it evaluates), newGroupedRowReader,
\* newProjectedRowReader, newDistinctRowReader, newLimitRowReader
Reader(kind, cond) == [reader |-> kind, cond |-> cond]

\* rowReader wrapped by the reader r if the clause is in the statement
Wrap(readers, clause, r) == IF clause THEN Append(readers, r) ELSE readers

\* the loop over stmt.selectors
ContainsAggregations(selectors) ==
    \E i \in 1..Len(selectors) : selectors[i] = AggSel

\* SelectStmt.Resolve on a table of the selected database: the readers from
\* the innermost to the outermost
SelectResolve(stmt) ==
    LET source == <<Reader("raw", "none")>>
        joint == Wrap(source, stmt.joins, Reader("joint", "none"))
        filtered == Wrap(joint, stmt.where, Reader("conditional", "where"))
        grouped ==
            IF ContainsAggregations(stmt.selectors)
            THEN Wrap(Append(filtered, Reader("grouped", "none")),
                      stmt.having, Reader("conditional", "having"))
            ELSE filtered
        projected == Append(grouped, Reader("projected", "none"))
        distinct == Wrap(projected, stmt.distinct, Reader("distinct", "none"))
    IN  Wrap(distinct, stmt.limit > 0, Reader("limit", "none"))

\* the select lists of the model
SelectorLists ==
    {<<ColSel>>, <<AggSel>>, <<ColSel, AggSel>>, <<AggSel, ColSel>>, <<ColSel, ColSel>>}

ResolveInit ==
    /\ EngineInit /\ ~table.autoIncrementPK
    /\ ConstraintIdle /\ RangeIdle /\ IdleBut("resolve")
    /\ \E implicitDB \in BOOLEAN, selectors \in SelectorLists, joins \in BOOLEAN,
          where \in BOOLEAN, groupBy \in 0..2, having \in BOOLEAN,
          distinct \in BOOLEAN, limit \in 0..1 :
          rsStmt = [kind |-> "SelectStmt", isTableRef |-> TRUE,
                    implicitDB |-> implicitDB, selectors |-> selectors,
                    joins |-> joins, where |-> where, groupBy |-> groupBy,
                    having |-> having, orderBy |-> << >>, distinct |-> distinct,
                    limit |-> limit]
    /\ rsResult = NoResult
    /\ rsReader = NoResult

\* the statement is compiled
CompileResolved ==
    /\ rsResult = NoResult
    /\ rsResult' = SelectCompileUsing(table, rsStmt)
    /\ UNCHANGED <<rsStmt, rsReader, notResolveVars>>

\* the statement, which has compiled, is resolved
ResolveCompiled ==
    /\ rsResult # NoResult
    /\ rsResult.err = NoErr
    /\ rsReader = NoResult
    /\ rsReader' = [err |-> NoErr, readers |-> SelectResolve(rsStmt)]
    /\ UNCHANGED <<rsStmt, rsResult, notResolveVars>>

ResolveNext == CompileResolved \/ ResolveCompiled

ResolveSpec == ResolveInit /\ [][ResolveNext]_vars

(***************************************************************************)
(* Properties of the write path                                            *)
(***************************************************************************)
IsUpsertInto(s) == s.kind = "UpsertIntoStmt"
IsCreateIndex(s) == s.kind = "CreateIndexStmt"

\* the entries of a batch that are primary entries
PrimaryEntries(des) == {i \in 1..Len(des) : IsPrefix(PKPrefix, des[i].Key)}

\* the live entries of a secondary index in the store
IndexPrefix(index) ==
    mapKey(IF index.unique THEN UIndexPrefix ELSE SIndexPrefix,
           <<EncodeID(DbID), EncodeID(TableID), EncodeID(index.id)>>)

LiveIndexKeys(st, index) ==
    {k \in DOMAIN st : IsPrefix(IndexPrefix(index), k) /\ st[k][1] = 0}

\* the encoded primary key an index entry refers to: the tail of the value
\* (unique index) or the tail of the key
EntryPK(st, index, k) ==
    IF index.unique THEN SubSeq(st[k], 2, Len(st[k]))
    ELSE SubSeq(k, Len(k) - 7, Len(k))

SecondaryIndexes(tbl) == {tbl.indexes[i] : i \in 2..Len(tbl.indexes)}

\* C1: the constraint of every primary entry a statement stages is
\* deletedOrMustNotExist for INSERT without auto-increment PK, none for
\* INSERT with auto-increment PK, none for UPSERT without auto-increment PK,
\* MustExist for UPSERT with auto-increment PK; one primary entry per row.
C1_PrimaryConstraint ==
    (IsUpsertInto(lastStmt) /\ ~summary.isNil) =>
        /\ Cardinality(PrimaryEntries(summary.des)) = Len(lastStmt.rows)
        /\ \A i \in PrimaryEntries(summary.des) :
            /\ (lastStmt.isInsert /\ ~table.autoIncrementPK)
                   => summary.des[i].Constraint = CDeletedOrMustNotExist
            /\ (lastStmt.isInsert /\ table.autoIncrementPK)
                   => summary.des[i].Constraint = NoConstraint
            /\ (~lastStmt.isInsert /\ ~table.autoIncrementPK)
                   => summary.des[i].Constraint = NoConstraint
            /\ (~lastStmt.isInsert /\ table.autoIncrementPK)
                   => summary.des[i].Constraint = CMustExist

\* an UPSERT into the table with auto-increment PK has staged its rows
C1_Witness ==
    /\ IsUpsertInto(lastStmt) /\ ~lastStmt.isInsert /\ table.autoIncrementPK
    /\ ~summary.isNil /\ Len(summary.des) > 0

\* C3: without auto-increment PK, an INSERT of a PK that a committed
\* statement has written fails and leaves the store unchanged; when the
\* statement compiles, it fails with KeyAlreadyExists.
C3_InsertUniqueness ==
    [][(/\ lastStmt = NoStmt
        /\ IsUpsertInto(lastStmt') /\ lastStmt'.isInsert
        /\ ~table.autoIncrementPK
        /\ \E i \in 1..Len(lastStmt'.rows) :
              /\ IdCol \in DOMAIN lastStmt'.rows[i]
              /\ lastStmt'.rows[i][IdCol] \in DOMAIN written)
       => /\ err' # NoErr
          /\ store' = store /\ written' = written
          /\ ~summary'.isNil => err' = ErrKeyAlreadyExists]_vars

\* a second INSERT of a PK has failed, in a table with the primary index only
C3_Witness ==
    /\ IsUpsertInto(lastStmt) /\ lastStmt.isInsert /\ ~table.autoIncrementPK
    /\ Len(table.indexes) = 1
    /\ ~summary.isNil
    /\ \E i \in 1..Len(compiled) : compiled[i][IdCol] \in DOMAIN written
    /\ err = ErrKeyAlreadyExists

\* C4: the primary index holds exactly one live entry per written PK, and
\* the row a primary scan returns for it holds the values of the last
\* committed write of that PK.
C4_UpsertStability ==
    /\ Cardinality({k \in DOMAIN store : IsPrefix(PKPrefix, k) /\ store[k][1] = 0})
           = Cardinality(DOMAIN written)
    /\ PrimaryScan(store) = {written[pk] : pk \in DOMAIN written}

\* an UPSERT has replaced a committed row by one with another indexed value
C4_Witness ==
    /\ IsUpsertInto(lastStmt) /\ ~lastStmt.isInsert
    /\ err = NoErr /\ ~summary.isNil
    /\ \E i \in 1..Len(summary.des) : summary.des[i].Value[1] = 1

\* C5: for every live row and every secondary index, exactly one live entry
\* of the index refers to the row, under the key of the row's current
\* values; and every live entry refers to a live row.
C5_SecondaryIndexCoverage ==
    \A index \in SecondaryIndexes(table) :
        /\ \A r \in PrimaryScan(store) :
              {k \in LiveIndexKeys(store, index) :
                   EntryPK(store, index, k) = EncodeAsKey(r[IdCol])}
                  = {IndexKey(index, r, EncodeAsKey(r[IdCol]))}
        /\ \A k \in LiveIndexKeys(store, index) :
              \E r \in PrimaryScan(store) :
                  EntryPK(store, index, k) = EncodeAsKey(r[IdCol])

\* a row whose indexed value was changed: the index holds a tombstone
C5_Witness ==
    /\ Len(table.indexes) > 1
    /\ PrimaryScan(store) # {}
    /\ \E index \in SecondaryIndexes(table) :
          \E k \in DOMAIN store : IsPrefix(IndexPrefix(index), k) /\ store[k][1] = 1

\* the statement s holds a row that has the indexed value of a live row of
\* the store with another PK
ConflictsOnUniqueIndex(tbl, st, rows) ==
    /\ \E index \in SecondaryIndexes(tbl) : index.unique
    /\ \E i \in 1..Len(rows) : \E r \in PrimaryScan(st) :
          r[IdCol] # rows[i][IdCol] /\ r[ACol] = rows[i][ACol]

\* C6 (as stated): with a unique index, a statement that gives a row the
\* indexed value of a live row with another PK fails with KeyAlreadyExists
\* and nothing of it becomes visible.
C6_UniqueConflictKeyAlreadyExists ==
    [][(/\ lastStmt = NoStmt
        /\ IsUpsertInto(lastStmt') /\ ~summary'.isNil
        /\ ConflictsOnUniqueIndex(table, store, compiled'))
       => (err' = ErrKeyAlreadyExists /\ store' = store)]_vars

\* C6 (amended): it fails with KeyAlreadyExists, or with KeyNotFound when
\* it is an UPSERT into the table with auto-increment PK of a PK that has
\* no row; and nothing of it becomes visible.
C6_UniqueConflictFails ==
    [][(/\ lastStmt = NoStmt
        /\ IsUpsertInto(lastStmt') /\ ~summary'.isNil
        /\ ConflictsOnUniqueIndex(table, store, compiled'))
       => /\ store' = store /\ written' = written
          /\ \/ err' = ErrKeyAlreadyExists
             \/ /\ err' = ErrKeyNotFound
                /\ ~lastStmt'.isInsert /\ table.autoIncrementPK
                /\ \E i \in 1..Len(compiled') :
                      compiled'[i][IdCol] \notin DOMAIN written]_vars

\* a statement has failed on the unique index alone
C6_Witness ==
    /\ IsUpsertInto(lastStmt) /\ ~summary.isNil
    /\ ConflictsOnUniqueIndex(table, store, compiled)
    /\ \A i \in 1..Len(compiled) : compiled[i][IdCol] \notin DOMAIN written
    /\ lastStmt.isInsert
    /\ err = ErrKeyAlreadyExists

\* C7: INSERT with auto-increment PK gives its rows the PKs maxPK+1,
\* maxPK+2, ... in row order and leaves maxPK at the last one, which a
\* compiled statement reports in lastInsertedPKs; maxPK never decreases and
\* UPSERT leaves it alone.
C7_AutoIncrement ==
    [][(lastStmt = NoStmt /\ IsUpsertInto(lastStmt')) =>
        /\ table'.maxPK >= table.maxPK
        /\ (lastStmt'.isInsert /\ table.autoIncrementPK) =>
              /\ \A i \in 1..Len(compiled') : compiled'[i][IdCol] = table.maxPK + i
              /\ ~summary'.isNil =>
                    /\ Len(compiled') = Len(lastStmt'.rows)
                    /\ table'.maxPK = table.maxPK + Len(compiled')
                    /\ summary'.lastInsertedPKs = <<table'.maxPK>>
        /\ ~lastStmt'.isInsert => table'.maxPK = table.maxPK]_vars

\* two rows inserted into the new table: lastInsertedPKs is 2
C7_Witness ==
    /\ IsUpsertInto(lastStmt) /\ lastStmt.isInsert /\ table.autoIncrementPK
    /\ Len(compiled) = 2 /\ compiled[1][IdCol] = 1 /\ compiled[2][IdCol] = 2
    /\ summary.lastInsertedPKs = <<2>>
    /\ err = NoErr

\* C8: a CREATE INDEX (on a selected database, naming columns) on a table
\* with a committed row fails with LimitedIndexCreation, gives no summary
\* and adds no index; one that succeeds found no row.
C8_IndexOnEmptyTable ==
    [][(lastStmt = NoStmt /\ IsCreateIndex(lastStmt')) =>
        /\ (lastStmt'.implicitDB /\ Len(lastStmt'.cols) >= 1 /\ written # EmptyMap)
              => /\ err' = ErrLimitedIndexCreation
                 /\ summary'.isNil
                 /\ table' = table /\ store' = store
        /\ err' = NoErr
              => /\ written = EmptyMap /\ PrimaryScan(store) = {}
                 /\ Len(table'.indexes) = Len(table.indexes) + 1
        /\ err' # NoErr => table' = table /\ store' = store]_vars

\* a CREATE INDEX was refused on a table with rows
C8_Witness ==
    /\ IsCreateIndex(lastStmt)
    /\ written # EmptyMap
    /\ err = ErrLimitedIndexCreation

\* the row gives no value (or NULL) to the primary key, which is not generated
PKMissing(s, tbl, r) == ~(s.isInsert /\ tbl.autoIncrementPK) /\ IdCol \notin DOMAIN r

\* the row gives no value (or NULL) to a NOT NULL column
NotNullMissing(r) == \E c \in ColIDs : notNull(c) /\ c \notin DOMAIN r

\* the rows of s up to the first that misses the primary key or a NOT NULL
\* column are rows that miss none
FirstDefective(s, tbl, i) ==
    /\ i \in 1..Len(s.rows)
    /\ PKMissing(s, tbl, s.rows[i]) \/ NotNullMissing(s.rows[i])
    /\ \A j \in 1..(i - 1) :
          ~PKMissing(s, tbl, s.rows[j]) /\ ~NotNullMissing(s.rows[j])

\* C20: every primary entry a statement stages has the key of a non-NULL
\* primary key value and every staged row has a value for the NOT NULL
\* column; a statement (on a selected database, giving no value to an
\* auto-incremental column) whose first row in default misses a NOT NULL
\* column fails with NotNullableColumnCannotBeNull, one whose first row in
\* default misses only the primary key fails with PKCanNotBeNull, and
\* neither stages anything.
C20_PKNeverNull ==
    IsUpsertInto(lastStmt) =>
        /\ ~summary.isNil =>
              /\ \A i \in PrimaryEntries(summary.des) :
                    \E j \in 1..Len(compiled) :
                        /\ IdCol \in DOMAIN compiled[j]
                        /\ summary.des[i].Key = PKKey(EncodeAsKey(compiled[j][IdCol]))
              /\ \A j \in 1..Len(compiled) :
                    IdCol \in DOMAIN compiled[j] /\ ~NotNullMissing(compiled[j])
              /\ Len(compiled) = Len(lastStmt.rows)
        /\ \A i \in 1..Len(lastStmt.rows) :
              (/\ lastStmt.implicitDB
               /\ ~(lastStmt.isInsert /\ table.autoIncrementPK /\ IdCol \in lastStmt.cols)
               /\ FirstDefective(lastStmt, table, i))
              => /\ summary.isNil
                 /\ Len(compiled) = i - 1
                 /\ err = IF NotNullMissing(lastStmt.rows[i])
                          THEN ErrNotNullableColumnCannotBeNull
                          ELSE ErrPKCanNotBeNull

\* the second row of an UPSERT gave NULL to the primary key
C20_Witness ==
    /\ IsUpsertInto(lastStmt) /\ ~lastStmt.isInsert
    /\ Len(lastStmt.rows) = 2 /\ Len(compiled) = 1
    /\ IdCol \in lastStmt.cols /\ IdCol \notin DOMAIN lastStmt.rows[2]
    /\ err = ErrPKCanNotBeNull /\ summary.isNil

(***************************************************************************)
(* Properties of the SELECT compiler and planner                           *)
(***************************************************************************)
\* the statement reads a table of the selected database and names columns
\* of the table
PlansOnTable(s) ==
    /\ s.isTableRef /\ s.implicitDB
    /\ GhostCol \notin ColsOf(s.indexOn)
    /\ \A i \in 1..Len(s.orderBy) : s.orderBy[i].col # GhostCol

\* the indexes of the table with exactly the columns of USE INDEX
Hinted(tbl, s) ==
    {tbl.indexes[i] : i \in {j \in 1..Len(tbl.indexes) : tbl.indexes[j].cols = s.indexOn}}

\* the range bounds the column to one value
EqualityBounded(r) ==
    /\ ~r.lRange.isNil /\ ~r.hRange.isNil
    /\ r.lRange.val = r.hRange.val
    /\ r.lRange.inclusive /\ r.hRange.inclusive

\* the indexes of the table that cover c and whose columns before c are
\* bounded to one value by the ranges of the WHERE expression
SortableBy(tbl, s, c) ==
    LET ranges == IF s.where = NoExp THEN EmptyMap
                  ELSE selectorRanges(s.where, EmptyMap)
    IN  {tbl.indexes[i] : i \in
            {j \in 1..Len(tbl.indexes) :
                \E k \in 1..Len(tbl.indexes[j].cols) :
                    /\ tbl.indexes[j].cols[k] = c
                    /\ \A l \in 1..(k - 1) :
                          /\ tbl.indexes[j].cols[l] \in DOMAIN ranges
                          /\ EqualityBounded(ranges[tbl.indexes[j].cols[l]])}}

\* C11: without ORDER BY, the index of the scan specs is the index with
\* exactly the columns of USE INDEX (NoAvailableIndex if the table has none)
\* and the primary index without USE INDEX; descOrder is false.
C11_IndexWithoutOrderBy ==
    (scanSpecs # NoResult /\ PlansOnTable(selStmt) /\ selStmt.orderBy = << >>) =>
        IF Len(selStmt.indexOn) > 0
        THEN IF Hinted(planTable, selStmt) # {}
             THEN /\ scanSpecs.err = NoErr /\ ~scanSpecs.isNil
                  /\ scanSpecs.index \in Hinted(planTable, selStmt)
                  /\ scanSpecs.descOrder = FALSE
             ELSE scanSpecs.err = ErrNoAvailableIndex /\ scanSpecs.isNil
        ELSE /\ scanSpecs.err = NoErr /\ ~scanSpecs.isNil
             /\ scanSpecs.index = PrimaryIndex
             /\ scanSpecs.descOrder = FALSE

\* USE INDEX (b, a) found no index in a table with an index on (a, b)
C11_Witness ==
    /\ scanSpecs # NoResult /\ PlansOnTable(selStmt) /\ selStmt.orderBy = << >>
    /\ selStmt.indexOn = <<BCol, ACol>>
    /\ \E i \in 1..Len(planTable.indexes) : planTable.indexes[i].cols = <<ACol, BCol>>
    /\ scanSpecs.err = ErrNoAvailableIndex

\* C12 (as stated): with ORDER BY c (and a USE INDEX, if any, that names an
\* index of the table), when an index covers c and sorts by c under the
\* ranges, the planner picks such an index, the hinted one if it is among
\* them, and descOrder is the requested direction.
C12_HintIsPreference ==
    (/\ scanSpecs # NoResult /\ PlansOnTable(selStmt) /\ Len(selStmt.orderBy) > 0
     /\ Len(selStmt.indexOn) > 0 => Hinted(planTable, selStmt) # {}) =>
        LET sortable == SortableBy(planTable, selStmt, selStmt.orderBy[1].col)
        IN  sortable # {} =>
                /\ scanSpecs.err = NoErr /\ ~scanSpecs.isNil
                /\ scanSpecs.index \in sortable
                /\ (Hinted(planTable, selStmt) \cap sortable # {}
                       => scanSpecs.index \in Hinted(planTable, selStmt))
                /\ scanSpecs.descOrder = selStmt.orderBy[1].descOrder

\* C12 (amended): with ORDER BY c, the candidates are the indexes that cover
\* c and sort by c under the ranges, and with USE INDEX the hinted index
\* alone if it is one of them; the planner picks a candidate, with descOrder
\* the requested direction, and fails with NoAvailableIndex if there is none.
C12_HintIsBinding ==
    (scanSpecs # NoResult /\ PlansOnTable(selStmt) /\ Len(selStmt.orderBy) > 0) =>
        LET sortable == SortableBy(planTable, selStmt, selStmt.orderBy[1].col)
            candidates == IF Len(selStmt.indexOn) > 0
                          THEN sortable \cap Hinted(planTable, selStmt)
                          ELSE sortable
        IN  IF candidates # {}
            THEN /\ scanSpecs.err = NoErr /\ ~scanSpecs.isNil
                 /\ scanSpecs.index \in candidates
                 /\ scanSpecs.descOrder = selStmt.orderBy[1].descOrder
            ELSE scanSpecs.err = ErrNoAvailableIndex /\ scanSpecs.isNil

\* ORDER BY a DESC with USE INDEX (a, b) picked the index on (a, b), created
\* after the index on (a)
C12_Witness ==
    /\ scanSpecs # NoResult /\ PlansOnTable(selStmt)
    /\ selStmt.orderBy = <<OrdCol(ACol, TRUE)>>
    /\ selStmt.indexOn = <<ACol, BCol>>
    /\ Len(planTable.indexes) = 3 /\ planTable.indexes[2].cols = <<ACol>>
    /\ scanSpecs.err = NoErr
    /\ scanSpecs.index.cols = <<ACol, BCol>> /\ scanSpecs.descOrder

\* ORDER BY names a column that no index of the table holds
OrderByUnindexed(tbl, s) ==
    /\ Len(s.orderBy) = 1 /\ s.isTableRef /\ s.orderBy[1].col # GhostCol
    /\ \A i \in 1..Len(tbl.indexes) : s.orderBy[1].col \notin ColsOf(tbl.indexes[i].cols)

\* C13: on a selected database, the compilation of a SELECT fails with
\* HavingClauseRequiresGroupClause when HAVING comes without GROUP BY, with
\* LimitedGroupBy when GROUP BY names more than one column, and, when
\* neither is the case, with LimitedOrderBy when ORDER BY names more than
\* one column, reads no table, or names a column of the table that no index
\* holds; a failure returns no summary; a statement with none of these
\* defaults, whose ORDER BY column exists, returns an empty summary that
\* carries the selected database.
C13_SelectCompileErrors ==
    (selResult # NoResult /\ selStmt.implicitDB) =>
        LET havingNoGroup == selStmt.groupBy = 0 /\ selStmt.having
            manyGroups == selStmt.groupBy > 1
            badOrder == \/ Len(selStmt.orderBy) > 1
                        \/ Len(selStmt.orderBy) > 0 /\ ~selStmt.isTableRef
                        \/ OrderByUnindexed(planTable, selStmt)
            ghostOrder == /\ Len(selStmt.orderBy) = 1 /\ selStmt.isTableRef
                          /\ selStmt.orderBy[1].col = GhostCol
        IN  /\ havingNoGroup => selResult.err = ErrHavingClauseRequiresGroupClause
            /\ manyGroups => selResult.err = ErrLimitedGroupBy
            /\ (badOrder /\ ~havingNoGroup /\ ~manyGroups)
                   => selResult.err = ErrLimitedOrderBy
            /\ selResult.err # NoErr => selResult.isNil
            /\ (~havingNoGroup /\ ~manyGroups /\ ~badOrder /\ ~ghostOrder)
                   => /\ selResult.err = NoErr /\ ~selResult.isNil
                      /\ selResult.db = DbID /\ selResult.entries = 0

\* ORDER BY b was refused in a table without index on b
C13_Witness ==
    /\ selResult # NoResult /\ selStmt.implicitDB
    /\ OrderByUnindexed(planTable, selStmt) /\ selStmt.orderBy[1].col = BCol
    /\ selStmt.groupBy = 1 /\ selStmt.having
    /\ selResult.err = ErrLimitedOrderBy

(***************************************************************************)
(* Properties of the typed comparison                                      *)
(***************************************************************************)
\* the order of two non-null values of one type
LogicalOrder(v, w) ==
    CASE v.type = IntegerType ->
             (IF v.num < w.num THEN -1 ELSE IF v.num > w.num THEN 1 ELSE 0)
      [] v.type = BooleanType ->
             (IF v.bool = w.bool THEN 0 ELSE IF w.bool THEN -1 ELSE 1)
      [] OTHER -> BytesCompare(v.bytes, w.bytes)

\* Compare has returned r without error
Compared(r) == cmpResult.err = NoErr /\ cmpResult.r = r

\* C14: a NULL of any type compares equal to a NULL of any type
\* and less than any non-null value; two non-null values of different types
\* fail with NotComparableValues and two of one type return their order.
C14_NullOfAnyType ==
    cmpResult # NoResult =>
        /\ (cmpLeft.null /\ cmpRight.null) => Compared(0)
        /\ (cmpLeft.null /\ ~cmpRight.null) => Compared(-1)
        /\ (~cmpLeft.null /\ ~cmpRight.null /\ cmpLeft.type # cmpRight.type)
               => cmpResult.err = ErrNotComparableValues
        /\ (~cmpLeft.null /\ ~cmpRight.null /\ cmpLeft.type = cmpRight.type)
               => Compared(LogicalOrder(cmpLeft, cmpRight))

\* the comparison is col = NULL: the right operand is the NULL literal, of
\* type ANY or of the type of the column
IsColEqualsNull ==
    /\ cmpOp = EQ
    /\ cmpRight.null /\ cmpRight.type \in {AnyType, cmpLeft.type}
    /\ cmpLeft.type # AnyType

\* C15: col = NULL is false for every row, whether the value of
\* col in the row is NULL or not.
C15_EqualsNullIsFalse ==
    (cmpResult # NoResult /\ IsColEqualsNull)
        => (cmpResult.err = NoErr /\ cmpResult.val = FALSE)

\* C30: Compare is antisymmetric over all typed values, NULLs of a type
\* and of type ANY included: a.Compare(b) fails exactly when b.Compare(a)
\* fails, and otherwise a.Compare(b) = -(b.Compare(a)).
C30_CompareAntisymmetric ==
    cmpResult # NoResult =>
        LET back == TypedCompare(cmpRight, cmpLeft)
        IN  /\ (cmpResult.err # NoErr) <=> (back.err # NoErr)
            /\ cmpResult.err = NoErr => cmpResult.r = 0 - back.r

(***************************************************************************)
(* Properties of the parameter typing                                      *)
(***************************************************************************)
\* C16: over any sequence of inferType and requiresType calls on one params
\* map, a placeholder is first recorded as ANY by inferType, requiresType
\* records the required type for a placeholder that has none, and a
\* placeholder that has a concrete type keeps it: requiring another type of
\* it fails with InferredMultipleTypes and changes nothing.
C16_ParamTypeNarrowsOnce ==
    [][/\ \A id \in ParamIDs :
              typeParams[id] \in ConcreteTypes => typeParams'[id] = typeParams[id]
       /\ typeCall'.fn = "Param.inferType" =>
              /\ typeRet'.err = NoErr
              /\ typeParams[typeCall'.id] = Absent =>
                     (typeParams'[typeCall'.id] = AnyType /\ typeRet'.t = AnyType)
              /\ typeParams[typeCall'.id] # Absent =>
                     (typeParams' = typeParams /\ typeRet'.t = typeParams[typeCall'.id])
       /\ typeCall'.fn = "Param.requiresType" =>
              IF typeParams[typeCall'.id] \in ConcreteTypes \ {typeCall'.t}
              THEN typeRet'.err = ErrInferredMultipleTypes /\ typeParams' = typeParams
              ELSE /\ typeRet'.err = NoErr
                   /\ typeParams' = [typeParams EXCEPT ![typeCall'.id] = typeCall'.t]
      ]_vars

\* the placeholder p has the type INTEGER and VARCHAR was required of it
C16_Witness ==
    /\ typeCall # NoStmt
    /\ typeCall.fn = "Param.requiresType" /\ typeCall.id = "p"
    /\ typeCall.t = VarcharType
    /\ typeParams["p"] = IntegerType
    /\ typeRet.err = ErrInferredMultipleTypes

(***************************************************************************)
(* Properties of TxStmt                                                    *)
(***************************************************************************)
\* the sum of the updatedRows of the first n compiled substatements
RECURSIVE TraceUpdatedRows(_)
TraceUpdatedRows(n) ==
    IF n = 0 THEN 0 ELSE TraceUpdatedRows(n - 1) + txTrace[n].updatedRows

\* the compiled substatements that were given an auto-incremental key
Inserting == {i \in 1..Len(txTrace) : txTrace[i].lastInsertedPKs # << >>}

\* the last of the substatements in S
Last(S) == CHOOSE i \in S : \A j \in S : j <= i

\* the summary of the substatement i is the summary of a statement of its
\* kind compiled with the database it was given
SummaryOfKind(i) ==
    LET s == txStmts[i]
        t == txTrace[i]
    IN  CASE s.kind = "UseDatabaseStmt" ->
                 /\ t.db # NoDB /\ txDbs[t.db] = s.DB
                 /\ t.ces = << >> /\ t.des = << >> /\ t.updatedRows = 0
          [] s.kind = "CreateDatabaseStmt" ->
                 /\ t.db # NoDB /\ txDbs[t.db] = s.DB
                 /\ Len(t.ces) = 1
                 /\ t.ces[1].Key = catalogDatabasePrefix \o U32(t.db)
                 /\ t.des = << >> /\ t.updatedRows = 0
          [] OTHER ->
                 /\ t.implicitDB = DbID /\ t.db = DbID
                 /\ t.ces = << >> /\ t.des # << >>
                 /\ t.updatedRows = Len(s.stmt.rows)

UsesMissingDatabase(i) ==
    /\ txStmts[i] = UseDatabaseStmt(Db2Name)
    /\ \A j \in 1..(i - 1) : txStmts[j] # CreateDatabaseStmt(Db2Name)

\* C18: a TxStmt fails when one of its substatements fails to compile, and
\* then at the first that fails: the substatements after it are not
\* compiled, an INSERT / UPSERT that fails has compiled the rows before the
\* first row in default only, the result is nil with the error, and no
\* entry is staged for commit.
C18_FirstErrorStops ==
    txResult # NoResult =>
        /\ txResult.err = NoErr <=> \A i \in 1..Len(txTrace) : txTrace[i].errs = {}
        /\ \A i \in 1..Len(txStmts) :
               UsesMissingDatabase(i) => (txResult.err # NoErr /\ Len(txTrace) <= i)
        /\ txResult.err # NoErr =>
               /\ txResult.isNil
               /\ txResult.ces = << >> /\ txResult.des = << >>
               /\ txResult.batch = << >>
               /\ Len(txTrace) \in 1..Len(txStmts)
               /\ txResult.err \in txTrace[Len(txTrace)].errs
               /\ \A i \in 1..(Len(txTrace) - 1) : txTrace[i].errs = {}
               /\ LET n == Len(txTrace)
                  IN  (txStmts[n].kind = "UpsertIntoStmt" /\ txTrace[n].implicitDB = DbID)
                          => \E i \in 1..Len(txStmts[n].stmt.rows) :
                                 /\ FirstDefective(txStmts[n].stmt, txTrace[n].tbl, i)
                                 /\ Len(txTrace[n].rows) = i - 1

\* an UPSERT of a row was compiled, then USE DATABASE db2 failed and the
\* third substatement was not compiled
C18_Witness ==
    /\ txResult # NoResult /\ txResult.err = ErrDatabaseDoesNotExist
    /\ Len(txStmts) = 3
    /\ txStmts[1].kind = "UpsertIntoStmt"
    /\ UsesMissingDatabase(2)
    /\ Len(txTrace) = 2 /\ txTrace[1].des # << >>
    /\ txResult.isNil

(***************************************************************************)
(* Properties of LIMIT                                                     *)
(***************************************************************************)
\* C19: a SELECT with LIMIT N, N >= 0, is resolved to a reader with a limit
\* reader on top, and no more than N rows are read from it.
C19_LimitBoundsRows ==
    (limReader # NoStmt /\ limGiven) =>
        /\ limReader.stacked
        /\ limRead <= limN

(***************************************************************************)
(* Properties of substitute                                                *)
(***************************************************************************)
\* the parameters an expression names
RECURSIVE ParamsOf(_)
ParamsOf(e) ==
    IF e.exp = "Param" THEN {e.id}
    ELSE IF e.exp = "Number" THEN {}
    ELSE IF e.exp = "NotBoolExp" THEN ParamsOf(e.inner)
    ELSE ParamsOf(e.left) \cup ParamsOf(e.right)

\* the expression e with the values of params in the place of its
\* parameters
RECURSIVE Instance(_, _)
Instance(e, params) ==
    IF e.exp = "Param" THEN NumberLit(params[e.id])
    ELSE IF e.exp = "Number" THEN e
    ELSE IF e.exp = "NotBoolExp" THEN [e EXCEPT !.inner = Instance(e.inner, params)]
    ELSE [e EXCEPT !.left = Instance(e.left, params),
                   !.right = Instance(e.right, params)]

\* C29: substitute leaves the expression it is called on as it was parsed,
\* and every call, the first or a later one, with values for all the
\* parameters of the expression gives the value of the parsed expression
\* under the values of that call.
C29_SubstituteIsPure ==
    /\ subStmt = subParsed
    /\ (subOut # NoResult /\ ParamsOf(subParsed) \subseteq DOMAIN subParams)
           => subOut = ExpReduce(Instance(subParsed, subParams))

(***************************************************************************)
(* Properties of CREATE TABLE                                              *)
(***************************************************************************)
\* the staged entries of the columns: those after the entry of the primary
\* index and before the entry of the table
ColumnEntryOf(id) == ctResult.ces[id + 1]

\* bit n of the byte b
Bit(b, n) == (b \div (2 ^ n)) % 2 = 1

\* C21: in the catalog entry CREATE TABLE stages for a column, bit 0 of the
\* flags byte is set exactly when the column is nullable and bit 1 exactly
\* when it is auto-incremental; the four bytes that follow are the max
\* length, big-endian, and the rest is the name of the column.
C21_ColumnFlags ==
    (ctResult # NoResult /\ ctResult.err = NoErr /\ ctResult.ces # << >>) =>
        \A id \in 1..Len(ctStmt.colsSpec) :
            LET col == ctStmt.colsSpec[id]
                v == ColumnEntryOf(id).Value
            IN  /\ Bit(v[1], 0) <=> ~col.notNull
                /\ Bit(v[1], 1) <=> col.autoIncrement
                /\ DecodeU32(SubSeq(v, 2, 5)) = ColMaxLen(col)
                /\ SubSeq(v, 6, Len(v)) = col.colName

(***************************************************************************)
(* Properties of the index entries of an UPSERT                            *)
(***************************************************************************)
\* the encoded primary key the staged entry kv of the index refers to
StagedPK(index, kv) ==
    IF index.unique THEN SubSeq(kv.Value, 2, Len(kv.Value))
    ELSE SubSeq(kv.Key, Len(kv.Key) - 7, Len(kv.Key))

\* the entries of des that belong to the index, refer to the primary key
\* and have the deleted byte d
StagedFor(des, index, pkEncVals, d) ==
    {i \in 1..Len(des) :
        /\ IsPrefix(IndexPrefix(index), des[i].Key)
        /\ StagedPK(index, des[i]) = pkEncVals
        /\ des[i].Value[1] = d}

\* C22: when a statement compiles on a store st, for every row of an UPSERT
\* whose PK has a live row in st and every secondary index: if the old and
\* the new row agree on the columns of the index, nothing is staged in the
\* index for the PK; otherwise one tombstone is staged, under the key the
\* entry of the old row has in st, and one live entry, under the key of the
\* new row. INSERT stages no tombstone.
C22_TombstoneOrReuse ==
    [][(IsUpsertInto(lastStmt') /\ ~summary'.isNil) =>
          /\ lastStmt'.isInsert =>
                 \A i \in 1..Len(summary'.des) : summary'.des[i].Value[1] = 0
          /\ ~lastStmt'.isInsert =>
                 \A j \in 1..Len(compiled') : \A old \in PrimaryScan(store) :
                 \A index \in SecondaryIndexes(table) :
                     LET new == compiled'[j]
                         pk == EncodeAsKey(new[IdCol])
                         dead == StagedFor(summary'.des, index, pk, 1)
                         live == StagedFor(summary'.des, index, pk, 0)
                     IN  old[IdCol] = new[IdCol] =>
                             IF \A c \in ColsOf(index.cols) : old[c] = new[c]
                             THEN dead = {} /\ live = {}
                             ELSE /\ Cardinality(dead) = 1
                                  /\ Cardinality(live) = 1
                                  /\ \A i \in dead :
                                         /\ summary'.des[i].Key \in LiveIndexKeys(store, index)
                                         /\ EntryPK(store, index, summary'.des[i].Key) = pk
                                  /\ \A i \in live :
                                         summary'.des[i].Key = IndexKey(index, new, pk)
      ]_vars

\* an UPSERT has changed the indexed value of a row: a tombstone and a live
\* entry of the index were staged
C22_Witness ==
    /\ IsUpsertInto(lastStmt) /\ ~lastStmt.isInsert /\ ~summary.isNil
    /\ err = NoErr
    /\ \E index \in SecondaryIndexes(table) :
       \E j \in 1..Len(compiled) :
           /\ StagedFor(summary.des, index, EncodeAsKey(compiled[j][IdCol]), 1) # {}
           /\ StagedFor(summary.des, index, EncodeAsKey(compiled[j][IdCol]), 0) # {}

(***************************************************************************)
(* Properties of the auto-increment counter of a failed INSERT             *)
(***************************************************************************)
\* an INSERT into the auto-increment table has failed
FailedAutoInsert(stmt, tbl, e) ==
    IsUpsertInto(stmt) /\ stmt.isInsert /\ tbl.autoIncrementPK /\ e # NoErr

\* C26: an INSERT into the auto-increment table that fails, in the
\* compilation of a row or at commit, leaves maxPK advanced by one for each
\* row that was given a PK before the failure, sets catalog.mutated if a row
\* was given a PK, and writes nothing; catalog.mutated is never reset; the
\* PKs an INSERT gives are above the maxPK it started with, and every live
\* row of the auto-increment table has its PK in 1..maxPK.
C26_FailedInsertKeepsMaxPK ==
    [][/\ FailedAutoInsert(lastStmt', table, err') =>
              /\ table'.maxPK = table.maxPK + Len(compiled')
              /\ mutated' = (mutated \/ Len(compiled') > 0)
              /\ store' = store
       /\ mutated => mutated'
       /\ table'.maxPK >= table.maxPK
       /\ (IsUpsertInto(lastStmt') /\ lastStmt'.isInsert /\ table.autoIncrementPK) =>
              \A i \in 1..Len(compiled') : compiled'[i][IdCol] > table.maxPK
       /\ table'.autoIncrementPK =>
              \A row \in PrimaryScan(store') : row[IdCol] \in 1..table'.maxPK
      ]_vars

\* an INSERT into the auto-increment table has failed at commit after its
\* rows were given PKs, and a row written before is live
C26_Witness ==
    /\ FailedAutoInsert(lastStmt, table, err)
    /\ ~summary.isNil
    /\ Len(compiled) > 0
    /\ table.maxPK > Len(compiled)
    /\ mutated
    /\ PrimaryScan(store) # {}

\* an INSERT into the auto-increment table has failed in its second row
C26_FailedInLaterRow ==
    /\ FailedAutoInsert(lastStmt, table, err)
    /\ summary.isNil
    /\ Len(compiled) > 0

(***************************************************************************)
(* Properties of a statement that names one primary key twice              *)
(***************************************************************************)
\* the keys of the index the batch leaves live for the primary key: the
\* last entry staged under the key is live and refers to the primary key
LeftLive(des, index, pkEncVals) ==
    {des[i].Key : i \in {x \in StagedFor(des, index, pkEncVals, 0) :
                            \A y \in 1..Len(des) : des[y].Key = des[x].Key => y <= x}}

\* C28: the entries an UPSERT stages for two rows of the same PK leave at
\* most one live entry of each secondary index for that PK.
C28_SamePKOneLiveEntry ==
    (IsUpsertInto(lastStmt) /\ ~lastStmt.isInsert /\ ~summary.isNil /\ Len(compiled) = 2
        /\ compiled[1][IdCol] = compiled[2][IdCol]) =>
        \A index \in SecondaryIndexes(table) :
            Cardinality(LeftLive(summary.des, index,
                                 EncodeAsKey(compiled[1][IdCol]))) <= 1

(***************************************************************************)
(* Properties of CREATE INDEX inside a TxStmt                              *)
(***************************************************************************)
\* the substatement i has staged a row of the table
StagedRows(i) ==
    /\ i <= Len(txTrace)
    /\ txStmts[i].kind = "UpsertIntoStmt"
    /\ txTrace[i].errs = {}
    /\ txTrace[i].des # << >>

\* C27: a CREATE INDEX that is compiled after a substatement of the same
\* TxStmt has staged a row of the table fails with LimitedIndexCreation.
C27_IndexAfterRowsRejected ==
    txResult # NoResult =>
        \A j \in 1..Len(txTrace) :
            (txStmts[j].kind = "CreateIndexStmt" /\ \E i \in 1..(j - 1) : StagedRows(i))
                => txTrace[j].errs = {ErrLimitedIndexCreation}

(***************************************************************************)
(* Properties of the Exec calls of two callers                             *)
(***************************************************************************)
\* the live entries of the index that refer to the row
LiveEntriesOf(st, index, row) ==
    {k \in LiveIndexKeys(st, index) : EntryPK(st, index, k) = EncodeAsKey(row[IdCol])}

\* C24: when no Exec call is in progress, every live row has exactly one
\* live entry in each secondary index, under the key of the values of its
\* primary entry.
C24_OneLiveEntryAfterCommits ==
    (\A c \in Callers : ccStmt[c] = NoStmt) =>
        \A index \in SecondaryIndexes(table) : \A row \in PrimaryScan(store) :
            LiveEntriesOf(store, index, row)
                = {IndexKey(index, row, EncodeAsKey(row[IdCol]))}

\* C25: no auto-increment PK is given to two rows, and the PK a statement
\* reports in lastInsertedPKs is the PK of one of its own rows.
C25_DistinctAutoIncrementPKs ==
    /\ \A i, j \in 1..Len(ccGiven) : ccGiven[i] = ccGiven[j] => i = j
    /\ \A c \in Callers :
          (ccStmt[c] # NoStmt /\ ccAcc[c].lastInsertedPKs # << >>) =>
              \E i \in 1..Len(ccAcc[c].rows) :
                  ccAcc[c].rows[i][IdCol] = ccAcc[c].lastInsertedPKs[1]

\* the rows of the INSERT of a caller were given PKs before and after a row
\* of the INSERT of the other caller
C25_Witness ==
    \E c \in Callers, d \in Callers :
        /\ c # d /\ ccStmt[c] # NoStmt /\ ccStmt[d] # NoStmt
        /\ Len(ccAcc[c].rows) = 2 /\ Len(ccAcc[d].rows) >= 1
        /\ ccAcc[c].rows[1][IdCol] < ccAcc[d].rows[1][IdCol]
        /\ ccAcc[d].rows[1][IdCol] < ccAcc[c].rows[2][IdCol]
        /\ ccAcc[c].lastInsertedPKs = <<ccAcc[c].rows[2][IdCol]>>

(***************************************************************************)
(* Properties of the pipeline of a SELECT                                  *)
(***************************************************************************)
\* C23: the pipeline of a SELECT that has compiled and has a HAVING clause
\* holds a conditional reader of the HAVING condition.
C23_HavingReaderInPipeline ==
    (rsReader # NoResult /\ rsStmt.having) =>
        \E i \in 1..Len(rsReader.readers) :
            rsReader.readers[i] = Reader("conditional", "having")

(***************************************************************************)
(* Properties of the deletedOrMustNotExist constraint                      *)
(***************************************************************************)
\* C2: deletedOrMustNotExist accepts an absent key, accepts a present key
\* whose value starts with the tombstone byte 1, rejects with
\* KeyAlreadyExists a present key that is live (an empty value included),
\* and returns any other lookup error unchanged.
C2_DeletedOrMustNotExist ==
    constraintErr # Pending =>
        LET tombstoned == Len(constraintValue) > 0 /\ constraintValue[1] = 1
        IN  /\ constraintLookupErr = ErrKeyNotFound => constraintErr = NoErr
            /\ (constraintLookupErr = NoErr /\ tombstoned) => constraintErr = NoErr
            /\ (constraintLookupErr = NoErr /\ ~tombstoned)
                   => constraintErr = ErrKeyAlreadyExists
            /\ constraintLookupErr \notin {NoErr, ErrKeyNotFound}
                   => constraintErr = constraintLookupErr

\* a present key with an empty value was rejected
C2_Witness ==
    /\ constraintLookupErr = NoErr
    /\ constraintValue = << >>
    /\ constraintErr = ErrKeyAlreadyExists

(***************************************************************************)
(* Properties of the value ranges                                          *)
(***************************************************************************)
\* the values a column takes in the rows the ranges are compared on
ColValues == 0..(MaxConst + 1)

\* the row that gives the value v to every column
RowOf(v) == [c \in RangeCols |-> v]

\* the value v lies in the range r
InRange(r, v) ==
    /\ \/ r.lRange.isNil
       \/ v > r.lRange.val
       \/ r.lRange.inclusive /\ v = r.lRange.val
    /\ \/ r.hRange.isNil
       \/ v < r.hRange.val
       \/ r.hRange.inclusive /\ v = r.hRange.val

\* e combines with AND comparisons (=, <, <=, >, >=) of column c with constants
RECURSIVE IsConjunctionOn(_, _)
IsConjunctionOn(e, c) ==
    IF e.exp = "CmpBoolExp"
    THEN e.left = ColSelector(c) /\ isConstant(e.right) /\ e.op # NE
    ELSE e.op = AND /\ IsConjunctionOn(e.left, c) /\ IsConjunctionOn(e.right, c)

\* C9 (as stated): for a WHERE that combines with AND comparisons of one
\* column with constants, the range of the column holds exactly the values
\* that satisfy all the comparisons.
C9_AndRangeIsIntersection ==
    ranged =>
        \A c \in RangeCols :
            IsConjunctionOn(stmtWhere, c) =>
                /\ c \in DOMAIN stmtRanges
                /\ \A v \in ColValues :
                      InRange(stmtRanges[c], v) <=> reduce(stmtWhere, RowOf(v))

\* C10 (as stated): for p OR q, the columns with a range are those with a
\* range on both sides, the range of a column holds every value of the
\* column in a row that satisfies p OR q, and it is unbounded on a side
\* where the range of p or of q is; a != comparison gives no range.
C10_OrRangeIsUnion ==
    ranged =>
        /\ (stmtWhere.exp = "BinBoolExp" /\ stmtWhere.op = OR) =>
              LET lRanges == selectorRanges(stmtWhere.left, EmptyMap)
                  rRanges == selectorRanges(stmtWhere.right, EmptyMap)
              IN  /\ DOMAIN stmtRanges = DOMAIN lRanges \cap DOMAIN rRanges
                  /\ \A c \in DOMAIN stmtRanges :
                        /\ stmtRanges[c].lRange.isNil
                              <=> (lRanges[c].lRange.isNil \/ rRanges[c].lRange.isNil)
                        /\ stmtRanges[c].hRange.isNil
                              <=> (lRanges[c].hRange.isNil \/ rRanges[c].hRange.isNil)
                  /\ \A row \in [RangeCols -> ColValues] :
                        reduce(stmtWhere, row)
                            => \A c \in DOMAIN stmtRanges : InRange(stmtRanges[c], row[c])
        /\ (stmtWhere.exp = "CmpBoolExp" /\ stmtWhere.op = NE)
              => stmtRanges = EmptyMap

====
